---- MODULE Spec2Model ----
(***************************************************************************)
(* DeskBank: the account ledger and money-movement core.                   *)
(*                                                                         *)
(* Account objects live in a heap (accounts); the AccountRepository maps   *)
(* account numbers to heap objects (_data) and writes a full snapshot of   *)
(* the map to its backing file (file) on every add/update.                 *)
(*                                                                         *)
(* Money is counted in cents.  An amount argument is a float in the code;  *)
(* here it is counted in mills (tenths of a cent) so that the half-up      *)
(* rounding to 2 decimals done by the code is visible.                     *)
(*                                                                         *)
(* A timestamp is the number of clock ticks (now) since the start.         *)
(*                                                                         *)
(* The UserRepository maps user ids to users (users); a user is known by   *)
(* its id alone, so the map holds the user's fields.                       *)
(* Not modelled: the description of a Transaction, the backing file of the *)
(* UserRepository, the full name and the dates of a user.                  *)
(***************************************************************************)
EXTENDS Integers, Sequences, FiniteSets, TLC

\* ---------------------------------------------------------------- bounds
MaxCalls == 3           \* calls of one run that change the state

\* ---------------------------------------------------------------- inputs
ObjIds == 1..MaxCalls
AccountNumbers == {"A1", "A2"}
Customers == {"u1"}
Amounts == {-10, 0, 4, 10}                \* mills: -0.01, 0, 0.004, 0.01
InitialDeposits == {-10, 0, 10}           \* mills
FractionAmounts == {4, 5, 14, 15}         \* mills: 0.004, 0.005, 0.014, 0.015
TypeInputs == {"Savings", "Gold"}
UserIds == {"u1", "u2"}
Limits == {<<>>, <<0>>, <<1>>, <<2>>}       \* <<>>: no limit given
Usernames == {"ann", "bob"}
Passwords == {"p1", "p2"}
Emails == {<<>>, <<"e1">>, <<"e2">>}         \* <<>>: None
\* mills: amounts around the daily limit 5000.00 of a Savings account
LimitAmounts == {898460, 898470, 2035190, 2066340, 5000000, 5000004}
LargeDeposits == {20000000}                 \* mills: 20000.00
Tokens == {"t1", "t2"}
Waits == {1, 2, 3}                        \* clock ticks that pass at once
IOOutcomes == {"ok", "open_fail", "write_fail"}

VARIABLES accounts,    \* heap: object id -> Account object
          opening,     \* object id -> balance set by the constructor (history)
          _data,       \* AccountRepository._data: account number -> object id
          data_file,   \* whether the repository has a backing file
          file,        \* content of the backing file
          last,        \* the last call: name, arguments, outcome
          calls,       \* number of state-changing calls made so far
          now,         \* the clock: what datetime.now() returns
          users,       \* UserRepository._data: user id -> User object
          _active_sessions,  \* AuthenticationService: session token -> session
          issued       \* the tokens secrets.token_urlsafe has returned (history)

vars == <<accounts, opening, _data, data_file, file, last, calls, now, users,
          _active_sessions, issued>>

\* ---------------------------------------------------------------- models/account.py
SAVINGS == "Savings"
CHECKING == "Checking"
BUSINESS == "Business"

\* variant of quantize that drops the third digit (ROUND_DOWN)
quantize_down(m) == IF m >= 0 THEN m \div 10 ELSE 0 - ((0 - m) \div 10)

\* Decimal(str(x)).quantize(Decimal('0.01'), rounding=ROUND_HALF_UP): mills -> cents
quantize(m) == IF m >= 0 THEN (m + 5) \div 10 ELSE 0 - ((5 - m) \div 10)

\* ---------------------------------------------------------------- float
\* A Python float is an IEEE 754 binary64 number.  The floats met here are 0
\* or lie between 0.001 and 2^30, so each is a whole number of units of
\* 2^-(FractionLimbs * LimbBits); it is written as the Limbs digits of that
\* whole number in base 2^LimbBits, lowest digit first.
MantissaBits == 53
LimbBits == 15
FractionLimbs == 5
Limbs == 8
Base == 2^LimbBits

\* the number of binary digits of n
RECURSIVE BitLength(_)
BitLength(n) == IF n = 0 THEN 0 ELSE 1 + BitLength(n \div 2)

\* the sum of two numbers in limbs
LimbsAdd(x, y) ==
    LET RECURSIVE carry(_)
        carry(i) == IF i = 1 THEN 0 ELSE (x[i - 1] + y[i - 1] + carry(i - 1)) \div Base
    IN [i \in 1..Limbs |-> (x[i] + y[i] + carry(i)) % Base]

\* the difference x - y of two numbers in limbs (y <= x)
LimbsSub(x, y) ==
    LET RECURSIVE borrow(_)
        borrow(i) == IF i = 1 THEN 0
                     ELSE IF x[i - 1] - y[i - 1] - borrow(i - 1) < 0 THEN 1 ELSE 0
    IN [i \in 1..Limbs |-> (Base + x[i] - y[i] - borrow(i)) % Base]

\* x <= y
LimbsLeq(x, y) ==
    \/ x = y
    \/ \E i \in 1..Limbs : x[i] < y[i] /\ \A j \in (i + 1)..Limbs : x[j] = y[j]

\* the nearest number with MantissaBits significant binary digits, ties to
\* even; left tells whether the exact number has digits below those of x
round_to_float(x, left) ==
    LET tops == {i \in 1..Limbs : x[i] # 0}
        top == CHOOSE i \in tops : \A j \in tops : j <= i
        length == IF tops = {} THEN 0 ELSE LimbBits * (top - 1) + BitLength(x[top])
        dropped == length - MantissaBits
    IN IF dropped <= 0 THEN x
       ELSE LET cut == dropped \div LimbBits + 1
                offset == dropped % LimbBits
                hcut == (dropped - 1) \div LimbBits + 1
                hoffset == (dropped - 1) % LimbBits
                kept == [i \in 1..Limbs |->
                            IF i < cut THEN 0
                            ELSE IF i = cut THEN x[i] - (x[i] % (2^offset))
                            ELSE x[i]]
                half == (x[hcut] \div (2^hoffset)) % 2 = 1
                more == \/ left
                        \/ x[hcut] % (2^hoffset) # 0
                        \/ \E i \in 1..(hcut - 1) : x[i] # 0
                odd == (x[cut] \div (2^offset)) % 2 = 1
                ulp == [i \in 1..Limbs |-> IF i = cut THEN 2^offset ELSE 0]
            IN IF half /\ (more \/ odd) THEN LimbsAdd(kept, ulp) ELSE kept

\* what is left of r / den after k limbs of the quotient (r < den)
RECURSIVE Remainder(_, _, _)
Remainder(r, den, k) == IF k = 0 THEN r ELSE Remainder((r * Base) % den, den, k - 1)

\* float(x) for the decimal number x = n / den (0 <= n, den <= 1000): the
\* quotient written out to FractionLimbs limbs, then rounded
float(n, den) ==
    LET q == n \div den
        exact == [i \in 1..Limbs |->
                     IF i <= FractionLimbs
                     THEN (Remainder(n % den, den, FractionLimbs - i) * Base) \div den
                     ELSE (q \div (Base^(i - FractionLimbs - 1))) % Base]
    IN round_to_float(exact, Remainder(n % den, den, FractionLimbs) # 0)

\* x + y of two floats
float_add(x, y) == round_to_float(LimbsAdd(x, y), FALSE)

\* x - y of two floats (y <= x)
float_sub(x, y) == round_to_float(LimbsSub(x, y), FALSE)

\* ---------------------------------------------------------------- transaction
\* Transaction.__init__; the uuid is modelled by <<object, position in its list>>
Transaction(o, pos, transaction_type, amount, account_number) ==
    [transactionId |-> <<o, pos>>, type |-> transaction_type,
     amount |-> amount, timestamp |-> now, account_number |-> account_number]

\* Account.__init__
Account(number, balance, account_type, owner_id) ==
    [accountNumber |-> number, balance |-> quantize(balance),
     account_type |-> account_type, owner_id |-> owner_id,
     transactions |-> <<>>, is_active |-> TRUE]

Result(err, h, ret) == [err |-> err, accounts |-> h, ret |-> ret]

\* variant of deposit that keeps no record of the deposit
deposit_unrecorded(h, o, amount) ==
    IF ~h[o].is_active THEN Result("InactiveAccount", h, <<>>)
    ELSE IF amount <= 0 THEN Result("InvalidAmount", h, <<>>)
    ELSE LET amount_decimal == quantize(amount)
             transaction == Transaction(o, Len(h[o].transactions) + 1, "Deposit",
                                        amount_decimal, h[o].accountNumber)
         IN Result("ok", [h EXCEPT ![o].balance = @ + amount_decimal], <<transaction>>)

\* variant of deposit that refuses negative amounts only
deposit_of_zero(h, o, amount) ==
    IF ~h[o].is_active THEN Result("InactiveAccount", h, <<>>)
    ELSE IF amount < 0 THEN Result("InvalidAmount", h, <<>>)
    ELSE LET amount_decimal == quantize(amount)
             transaction == Transaction(o, Len(h[o].transactions) + 1, "Deposit",
                                        amount_decimal, h[o].accountNumber)
         IN Result("ok",
                   [h EXCEPT ![o].balance = @ + amount_decimal,
                             ![o].transactions = Append(@, transaction)],
                   <<transaction>>)

\* Account.deposit
deposit(h, o, amount) ==
    IF ~h[o].is_active THEN Result("InactiveAccount", h, <<>>)
    ELSE IF amount <= 0 THEN Result("InvalidAmount", h, <<>>)
    ELSE LET amount_decimal == quantize(amount)
             transaction == Transaction(o, Len(h[o].transactions) + 1, "Deposit",
                                        amount_decimal, h[o].accountNumber)
         IN Result("ok",
                   [h EXCEPT ![o].balance = @ + amount_decimal,
                             ![o].transactions = Append(@, transaction)],
                   <<transaction>>)

\* variant of withdraw that refuses to empty the account
withdraw_keeping_a_cent(h, o, amount) ==
    IF ~h[o].is_active THEN Result("InactiveAccount", h, <<>>)
    ELSE IF amount <= 0 THEN Result("InvalidAmount", h, <<>>)
    ELSE LET amount_decimal == quantize(amount) IN
         IF h[o].balance <= amount_decimal THEN Result("InsufficientFunds", h, <<>>)
         ELSE LET transaction == Transaction(o, Len(h[o].transactions) + 1, "Withdrawal",
                                             amount_decimal, h[o].accountNumber)
              IN Result("ok",
                        [h EXCEPT ![o].balance = @ - amount_decimal,
                                  ![o].transactions = Append(@, transaction)],
                        <<transaction>>)

\* variant of withdraw that puts the new transaction in front of the older ones
withdraw_newest_first(h, o, amount) ==
    IF ~h[o].is_active THEN Result("InactiveAccount", h, <<>>)
    ELSE IF amount <= 0 THEN Result("InvalidAmount", h, <<>>)
    ELSE LET amount_decimal == quantize(amount) IN
         IF h[o].balance < amount_decimal THEN Result("InsufficientFunds", h, <<>>)
         ELSE LET transaction == Transaction(o, Len(h[o].transactions) + 1, "Withdrawal",
                                             amount_decimal, h[o].accountNumber)
              IN Result("ok",
                        [h EXCEPT ![o].balance = @ - amount_decimal,
                                  ![o].transactions = <<transaction>> \o @],
                        <<transaction>>)

\* Account.withdraw
withdraw(h, o, amount) ==
    IF ~h[o].is_active THEN Result("InactiveAccount", h, <<>>)
    ELSE IF amount <= 0 THEN Result("InvalidAmount", h, <<>>)
    ELSE LET amount_decimal == quantize(amount) IN
         IF h[o].balance < amount_decimal THEN Result("InsufficientFunds", h, <<>>)
         ELSE LET transaction == Transaction(o, Len(h[o].transactions) + 1, "Withdrawal",
                                             amount_decimal, h[o].accountNumber)
              IN Result("ok",
                        [h EXCEPT ![o].balance = @ - amount_decimal,
                                  ![o].transactions = Append(@, transaction)],
                        <<transaction>>)

\* variant of transfer_to that debits the source and credits nothing
transfer_to_debit_only(h, o, t, amount) ==
    IF ~h[o].is_active \/ ~h[t].is_active THEN Result("InactiveAccount", h, <<>>)
    ELSE IF amount <= 0 THEN Result("InvalidAmount", h, <<>>)
    ELSE LET amount_decimal == quantize(amount) IN
         IF h[o].balance < amount_decimal THEN Result("InsufficientFunds", h, <<>>)
         ELSE LET out_transaction ==
                      Transaction(o, Len(h[o].transactions) + 1, "Transfer Out",
                                  amount_decimal, h[o].accountNumber)
                  h1 == [h EXCEPT ![o].balance = @ - amount_decimal,
                                  ![o].transactions = Append(@, out_transaction)]
              IN Result("ok", h1, <<out_transaction>>)

\* variant of transfer_to that looks at the is_active flag of the source only
transfer_to_any_target(h, o, t, amount) ==
    IF ~h[o].is_active THEN Result("InactiveAccount", h, <<>>)
    ELSE IF amount <= 0 THEN Result("InvalidAmount", h, <<>>)
    ELSE LET amount_decimal == quantize(amount) IN
         IF h[o].balance < amount_decimal THEN Result("InsufficientFunds", h, <<>>)
         ELSE LET out_transaction ==
                      Transaction(o, Len(h[o].transactions) + 1, "Transfer Out",
                                  amount_decimal, h[o].accountNumber)
                  h1 == [h EXCEPT ![o].balance = @ - amount_decimal,
                                  ![o].transactions = Append(@, out_transaction)]
                  in_transaction ==
                      Transaction(t, Len(h1[t].transactions) + 1, "Transfer In",
                                  amount_decimal, h1[t].accountNumber)
                  h2 == [h1 EXCEPT ![t].balance = @ + amount_decimal,
                                   ![t].transactions = Append(@, in_transaction)]
              IN Result("ok", h2, <<out_transaction>>)

\* Account.transfer_to; self is o, to_account is t (t = o is not excluded)
transfer_to(h, o, t, amount) ==
    IF ~h[o].is_active \/ ~h[t].is_active THEN Result("InactiveAccount", h, <<>>)
    ELSE IF amount <= 0 THEN Result("InvalidAmount", h, <<>>)
    ELSE LET amount_decimal == quantize(amount) IN
         IF h[o].balance < amount_decimal THEN Result("InsufficientFunds", h, <<>>)
         ELSE LET out_transaction ==
                      Transaction(o, Len(h[o].transactions) + 1, "Transfer Out",
                                  amount_decimal, h[o].accountNumber)
                  h1 == [h EXCEPT ![o].balance = @ - amount_decimal,
                                  ![o].transactions = Append(@, out_transaction)]
                  in_transaction ==
                      Transaction(t, Len(h1[t].transactions) + 1, "Transfer In",
                                  amount_decimal, h1[t].accountNumber)
                  h2 == [h1 EXCEPT ![t].balance = @ + amount_decimal,
                                   ![t].transactions = Append(@, in_transaction)]
              IN Result("ok", h2, <<out_transaction>>)

\* variant of deactivate that flips the flag instead of clearing it
deactivate_toggle(h, o) == [h EXCEPT ![o].is_active = ~@]

\* Account.deactivate / Account.activate
deactivate(h, o) == [h EXCEPT ![o].is_active = FALSE]
activate(h, o) == [h EXCEPT ![o].is_active = TRUE]

\* Transaction.to_dict
TransactionToDict(t) ==
    [transaction_id |-> t.transactionId, type |-> t.type,
     amount |-> t.amount, timestamp |-> t.timestamp, account_number |-> t.account_number]

\* Account.to_dict; float(self.balance) is exact for the balances modelled
to_dict(a) ==
    [account_number |-> a.accountNumber, balance |-> a.balance,
     account_type |-> a.account_type, owner_id |-> a.owner_id,
     is_active |-> a.is_active,
     transactions |-> [i \in 1..Len(a.transactions) |-> TransactionToDict(a.transactions[i])]]

\* Transaction.from_dict: a new Transaction whose id and timestamp are then
\* overwritten by the stored ones
TransactionFromDict(t_data) ==
    [Transaction(0, 0, t_data.type, t_data.amount, t_data.account_number)
        EXCEPT !.transactionId = t_data.transaction_id,
               !.timestamp = t_data.timestamp]

\* variant of from_dict that does not read the stored is_active
from_dict_active(data) ==
    [Account("new", 10 * data.balance, data.account_type, data.owner_id)
        EXCEPT !.accountNumber = data.account_number,
               !.transactions = [i \in 1..Len(data.transactions) |->
                                     TransactionFromDict(data.transactions[i])]]

\* Account.from_dict: a new Account (the stored balance, a float of cents,
\* goes through the constructor's quantize) whose generated number, is_active
\* and transactions are then overwritten by the stored ones
from_dict(data) ==
    [Account("new", 10 * data.balance, data.account_type, data.owner_id)
        EXCEPT !.accountNumber = data.account_number,
               !.is_active = data.is_active,
               !.transactions = [i \in 1..Len(data.transactions) |->
                                     TransactionFromDict(data.transactions[i])]]

\* Account.get_transaction_history(limit); limit is <<>> when omitted.
\* sorted(..., key=timestamp, reverse=True) is stable: records of equal
\* timestamp keep their order in the list.  In "[:limit] if limit else ..." a
\* limit of 0 is false, and a negative limit cuts from the end.
RECURSIVE sorted_newest_first(_)
sorted_newest_first(log) ==
    IF log = <<>> THEN <<>>
    ELSE LET newest == CHOOSE i \in 1..Len(log) :
                           /\ \A j \in 1..Len(log) : log[j].timestamp <= log[i].timestamp
                           /\ \A j \in 1..(i - 1) : log[j].timestamp < log[i].timestamp
         IN <<log[newest]>> \o
            sorted_newest_first([k \in 1..(Len(log) - 1) |->
                                     IF k < newest THEN log[k] ELSE log[k + 1]])

get_transaction_history(a, limit) ==
    LET sorted_transactions == sorted_newest_first(a.transactions)
        n == Len(sorted_transactions)
    IN IF limit = <<>> \/ limit = <<0>> THEN sorted_transactions
       ELSE IF limit[1] > 0
            THEN SubSeq(sorted_transactions, 1, IF limit[1] < n THEN limit[1] ELSE n)
            ELSE SubSeq(sorted_transactions, 1, IF n + limit[1] > 0 THEN n + limit[1] ELSE 0)

\* ---------------------------------------------------------------- repositories
\* the dict comprehension of BaseRepository.save_data
serialized_data(d, h) == [n \in DOMAIN d |-> to_dict(h[d[n]])]

NoContent == [n \in {} |-> n]
NoFile == [state |-> "absent", content |-> NoContent]

\* variant of save_data that writes the entities of memory over the entities
\* the file holds and keeps the others
save_data_merging(df, d, h, f, io) ==
    IF ~df THEN f
    ELSE IF io = "ok"
         THEN [state |-> "written",
               content |-> [n \in DOMAIN f.content \cup DOMAIN d |->
                               IF n \in DOMAIN d THEN to_dict(h[d[n]]) ELSE f.content[n]]]
    ELSE IF io = "open_fail" THEN f
    ELSE [state |-> "partial", content |-> NoContent]

\* BaseRepository.save_data: io is the outcome of the write.  A failure before
\* the file is opened leaves the file as it was; a failure after open(..., 'w')
\* leaves a truncated file.
save_data(df, d, h, f, io) ==
    IF ~df THEN f
    ELSE IF io = "ok" THEN [state |-> "written", content |-> serialized_data(d, h)]
    ELSE IF io = "open_fail" THEN f
    ELSE [state |-> "partial", content |-> NoContent]

\* AccountRepository.find_by_account_number / BaseRepository.get_by_id
\* (the set is empty when the number is absent)
find_by_account_number(d, number) == IF number \in DOMAIN d THEN {d[number]} ELSE {}

\* variant of update that inserts the item when its id is absent
update_or_insert(df, d, h, f, o, io) ==
    LET d1 == [n \in DOMAIN d \cup {h[o].accountNumber} |->
                   IF n = h[o].accountNumber THEN o ELSE d[n]]
    IN [_data |-> d1, file |-> save_data(df, d1, h, f, io), saved |-> 1, ok |-> TRUE]

\* BaseRepository.update
update(df, d, h, f, o, io) ==
    IF h[o].accountNumber \in DOMAIN d
    THEN LET d1 == [d EXCEPT ![h[o].accountNumber] = o]
         IN [_data |-> d1, file |-> save_data(df, d1, h, f, io), saved |-> 1, ok |-> TRUE]
    ELSE [_data |-> d, file |-> f, saved |-> 0, ok |-> FALSE]

\* variant of add that keeps the entry already stored under the id
add_if_absent(df, d, h, f, o, io) ==
    LET d1 == [n \in DOMAIN d \cup {h[o].accountNumber} |->
                   IF n \in DOMAIN d THEN d[n] ELSE o]
    IN [_data |-> d1, file |-> save_data(df, d1, h, f, io)]

\* BaseRepository.add
add(df, d, h, f, o, io) ==
    LET d1 == [n \in DOMAIN d \cup {h[o].accountNumber} |->
                   IF n = h[o].accountNumber THEN o ELSE d[n]]
    IN [_data |-> d1, file |-> save_data(df, d1, h, f, io)]

\* AccountRepository.create_account
\* number is the value _generate_account_number returns; the object is the
\* next one of the heap
RepoCreateAccount(df, d, h, f, number, owner_id, account_type, initial_balance, io) ==
    LET account == Account(number, initial_balance, account_type, owner_id)
        h1 == Append(h, account)
        r == add(df, d, h1, f, Len(h1), io)
    IN [accounts |-> h1, _data |-> r._data, file |-> r.file]

\* AccountRepository.deactivate_account / activate_account
\* (AccountService.deactivate_account / activate_account only forward to them)
deactivate_account(df, d, h, f, number, io) ==
    IF find_by_account_number(d, number) # {}
    THEN LET h1 == deactivate(h, d[number])
             u == update(df, d, h1, f, d[number], io)
         IN [ok |-> TRUE, accounts |-> h1, _data |-> u._data, file |-> u.file, saves |-> u.saved]
    ELSE [ok |-> FALSE, accounts |-> h, _data |-> d, file |-> f, saves |-> 0]

activate_account(df, d, h, f, number, io) ==
    IF find_by_account_number(d, number) # {}
    THEN LET h1 == activate(h, d[number])
             u == update(df, d, h1, f, d[number], io)
         IN [ok |-> TRUE, accounts |-> h1, _data |-> u._data, file |-> u.file, saves |-> u.saved]
    ELSE [ok |-> FALSE, accounts |-> h, _data |-> d, file |-> f, saves |-> 0]

\* the keys of a dict, in the order the dict lists them
RECURSIVE items(_)
items(S) == IF S = {} THEN <<>>
            ELSE LET n == CHOOSE n \in S : TRUE IN <<n>> \o items(S \ {n})

\* AccountRepository.find_by_owner: the list of the stored objects, one per
\* key, that have the owner
find_by_owner(d, h, owner_id) ==
    LET keys == items(DOMAIN d)
        owned(o) == h[o].owner_id = owner_id
    IN SelectSeq([i \in 1..Len(keys) |-> d[keys[i]]], owned)

transfer_ownership(df, d, h, f, number, new_owner_id, io) ==
    IF find_by_account_number(d, number) # {}
    THEN LET h1 == [h EXCEPT ![d[number]].owner_id = new_owner_id]
             u == update(df, d, h1, f, d[number], io)
         IN [ok |-> TRUE, accounts |-> h1, _data |-> u._data, file |-> u.file, saves |-> u.saved]
    ELSE [ok |-> FALSE, accounts |-> h, _data |-> d, file |-> f, saves |-> 0]

\* BaseRepository.delete
delete(df, d, h, f, item_id, io) ==
    IF item_id \in DOMAIN d
    THEN LET d1 == [n \in DOMAIN d \ {item_id} |-> d[n]]
         IN [_data |-> d1, file |-> save_data(df, d1, h, f, io), saved |-> 1, ok |-> TRUE]
    ELSE [_data |-> d, file |-> f, saved |-> 0, ok |-> FALSE]

\* BaseRepository.clear
clear(df, d, h, f, io) == [_data |-> NoContent, file |-> save_data(df, NoContent, h, f, io)]

\* BaseRepository.load_data: nothing happens without a backing file or when
\* the file does not exist; a file that cannot be parsed empties the
\* collection; otherwise every stored item is deserialized into a new object
load_data(df, d, h, f) ==
    IF ~df \/ f.state = "absent" THEN [accounts |-> h, _data |-> d]
    ELSE IF f.state # "written" THEN [accounts |-> h, _data |-> NoContent]
    ELSE LET keys == items(DOMAIN f.content)
             h1 == h \o [i \in 1..Len(keys) |-> from_dict(f.content[keys[i]])]
         IN [accounts |-> h1,
             _data |-> [n \in DOMAIN f.content |->
                           Len(h) + CHOOSE i \in 1..Len(keys) : keys[i] = n]]

\* BaseRepository.__init__ in a new process: an empty collection, loaded from
\* the backing file if there is one
RepositoryInit(df, f) == load_data(df, NoContent, <<>>, f)

\* ---------------------------------------------------------------- services
SvcResult(err, h, d, f, ret, saves, lookups) ==
    [err |-> err, accounts |-> h, _data |-> d, file |-> f, ret |-> ret,
     saves |-> saves, lookups |-> lookups]

\* variant of create_account that takes any initial deposit
create_account_any_deposit(df, d, h, f, customer, account_type, initial_deposit, number, io) ==
    IF account_type \notin {SAVINGS, CHECKING, BUSINESS}
    THEN SvcResult("InvalidType", h, d, f, <<>>, 0, 0)
    ELSE LET r == RepoCreateAccount(df, d, h, f, number, customer, account_type,
                                    initial_deposit, io)
         IN SvcResult("ok", r.accounts, r._data, r.file, <<Len(r.accounts)>>, 1, 0)

\* AccountService.create_account; customer.add_account sets the owner_id the
\* account already has
create_account(df, d, h, f, customer, account_type, initial_deposit, number, io) ==
    IF initial_deposit < 0 THEN SvcResult("NegativeDeposit", h, d, f, <<>>, 0, 0)
    ELSE IF account_type \notin {SAVINGS, CHECKING, BUSINESS}
         THEN SvcResult("InvalidType", h, d, f, <<>>, 0, 0)
    ELSE LET r == RepoCreateAccount(df, d, h, f, number, customer, account_type,
                                    initial_deposit, io)
         IN SvcResult("ok", r.accounts, r._data, r.file, <<Len(r.accounts)>>, 1, 0)

\* variant of make_deposit that leaves the is_active check to Account.deposit
make_deposit_unchecked(df, d, h, f, account_number, amount, io) ==
    IF find_by_account_number(d, account_number) = {}
    THEN SvcResult("AccountNotFound", h, d, f, <<>>, 0, 1)
    ELSE LET account == d[account_number]
             r == deposit(h, account, amount) IN
         IF r.err # "ok" THEN SvcResult(r.err, h, d, f, <<>>, 0, 1)
         ELSE LET u == update(df, d, r.accounts, f, account, io)
              IN SvcResult("ok", r.accounts, u._data, u.file, r.ret, u.saved, 1)

\* AccountService.get_account_summary: the counts of the summary
get_account_summary(d, h, customer) ==
    LET accs == find_by_owner(d, h, customer)
        active(o) == h[o].is_active
        inactive(o) == ~h[o].is_active
    IN [total_accounts |-> Len(accs),
        active_accounts |-> Len(SelectSeq(accs, active)),
        inactive_accounts |-> Len(SelectSeq(accs, inactive))]

make_deposit(df, d, h, f, account_number, amount, io) ==
    IF find_by_account_number(d, account_number) = {}
    THEN SvcResult("AccountNotFound", h, d, f, <<>>, 0, 1)
    ELSE LET account == d[account_number] IN
         IF ~h[account].is_active THEN SvcResult("AccountInactive", h, d, f, <<>>, 0, 1)
         ELSE LET r == deposit(h, account, amount) IN
              IF r.err # "ok" THEN SvcResult(r.err, h, d, f, <<>>, 0, 1)
              ELSE LET u == update(df, d, r.accounts, f, account, io)
                   IN SvcResult("ok", r.accounts, u._data, u.file, r.ret, u.saved, 1)

\* variant of make_withdrawal that credits the amount instead of debiting it
make_withdrawal_crediting(df, d, h, f, account_number, amount, io) ==
    IF find_by_account_number(d, account_number) = {}
    THEN SvcResult("AccountNotFound", h, d, f, <<>>, 0, 1)
    ELSE LET account == d[account_number] IN
         IF ~h[account].is_active THEN SvcResult("AccountInactive", h, d, f, <<>>, 0, 1)
         ELSE LET r == deposit(h, account, amount) IN
              IF r.err # "ok" THEN SvcResult(r.err, h, d, f, <<>>, 0, 1)
              ELSE LET u == update(df, d, r.accounts, f, account, io)
                   IN SvcResult("ok", r.accounts, u._data, u.file, r.ret, u.saved, 1)

\* TransactionService.make_withdrawal
make_withdrawal(df, d, h, f, account_number, amount, io) ==
    IF find_by_account_number(d, account_number) = {}
    THEN SvcResult("AccountNotFound", h, d, f, <<>>, 0, 1)
    ELSE LET account == d[account_number] IN
         IF ~h[account].is_active THEN SvcResult("AccountInactive", h, d, f, <<>>, 0, 1)
         ELSE LET r == withdraw(h, account, amount) IN
              IF r.err # "ok" THEN SvcResult(r.err, h, d, f, <<>>, 0, 1)
              ELSE LET u == update(df, d, r.accounts, f, account, io)
                   IN SvcResult("ok", r.accounts, u._data, u.file, r.ret, u.saved, 1)

\* variant of transfer_funds that does not compare the two account numbers
transfer_funds_to_self(df, d, h, f, from_account_number, to_account_number, amount, io1, io2) ==
    IF find_by_account_number(d, from_account_number) = {}
    THEN SvcResult("AccountNotFound", h, d, f, <<>>, 0, 2)
    ELSE IF find_by_account_number(d, to_account_number) = {}
         THEN SvcResult("AccountNotFound", h, d, f, <<>>, 0, 2)
    ELSE LET from_account == d[from_account_number]
             to_account == d[to_account_number] IN
         IF ~h[from_account].is_active THEN SvcResult("AccountInactive", h, d, f, <<>>, 0, 2)
         ELSE IF ~h[to_account].is_active THEN SvcResult("AccountInactive", h, d, f, <<>>, 0, 2)
         ELSE LET r == transfer_to(h, from_account, to_account, amount) IN
              IF r.err # "ok" THEN SvcResult(r.err, h, d, f, <<>>, 0, 2)
              ELSE LET u1 == update(df, d, r.accounts, f, from_account, io1)
                       u2 == update(df, u1._data, r.accounts, u1.file, to_account, io2)
                   IN SvcResult("ok", r.accounts, u2._data, u2.file, r.ret,
                                u1.saved + u2.saved, 2)
                      @@ [snapshots |-> <<u1.file, u2.file>>]

\* variant of transfer_funds that writes the snapshots before the transfer is made
transfer_funds_saved_first(df, d, h, f, from_account_number, to_account_number, amount, io1, io2) ==
    IF from_account_number = to_account_number
    THEN SvcResult("SameAccount", h, d, f, <<>>, 0, 0)
    ELSE IF find_by_account_number(d, from_account_number) = {}
         THEN SvcResult("AccountNotFound", h, d, f, <<>>, 0, 2)
    ELSE IF find_by_account_number(d, to_account_number) = {}
         THEN SvcResult("AccountNotFound", h, d, f, <<>>, 0, 2)
    ELSE LET from_account == d[from_account_number]
             to_account == d[to_account_number] IN
         IF ~h[from_account].is_active THEN SvcResult("AccountInactive", h, d, f, <<>>, 0, 2)
         ELSE IF ~h[to_account].is_active THEN SvcResult("AccountInactive", h, d, f, <<>>, 0, 2)
         ELSE LET r == transfer_to(h, from_account, to_account, amount) IN
              IF r.err # "ok" THEN SvcResult(r.err, h, d, f, <<>>, 0, 2)
              ELSE LET u1 == update(df, d, h, f, from_account, io1)
                       u2 == update(df, u1._data, h, u1.file, to_account, io2)
                   IN SvcResult("ok", r.accounts, u2._data, u2.file, r.ret,
                                u1.saved + u2.saved, 2)
                      @@ [snapshots |-> <<u1.file, u2.file>>]

\* variant of transfer_funds that updates the source account between the debit
\* and the credit
transfer_funds_saved_between(df, d, h, f, from_account_number, to_account_number, amount, io1, io2) ==
    IF from_account_number = to_account_number
    THEN SvcResult("SameAccount", h, d, f, <<>>, 0, 0)
    ELSE IF find_by_account_number(d, from_account_number) = {}
         THEN SvcResult("AccountNotFound", h, d, f, <<>>, 0, 2)
    ELSE IF find_by_account_number(d, to_account_number) = {}
         THEN SvcResult("AccountNotFound", h, d, f, <<>>, 0, 2)
    ELSE LET from_account == d[from_account_number]
             to_account == d[to_account_number] IN
         IF ~h[from_account].is_active THEN SvcResult("AccountInactive", h, d, f, <<>>, 0, 2)
         ELSE IF ~h[to_account].is_active THEN SvcResult("AccountInactive", h, d, f, <<>>, 0, 2)
         ELSE LET r == transfer_to(h, from_account, to_account, amount) IN
              IF r.err # "ok" THEN SvcResult(r.err, h, d, f, <<>>, 0, 2)
              ELSE LET debited == transfer_to_debit_only(h, from_account, to_account,
                                                         amount).accounts
                       w1 == update(df, d, debited, f, from_account, io1)
                       w2 == update(df, w1._data, r.accounts, w1.file, to_account, io2)
                   IN SvcResult("ok", r.accounts, w2._data, w2.file, r.ret,
                                w1.saved + w2.saved, 2)
                      @@ [snapshots |-> <<w1.file, w2.file>>]

\* TransactionService.transfer_funds
transfer_funds(df, d, h, f, from_account_number, to_account_number, amount, io1, io2) ==
    IF from_account_number = to_account_number
    THEN SvcResult("SameAccount", h, d, f, <<>>, 0, 0)
    ELSE IF find_by_account_number(d, from_account_number) = {}
         THEN SvcResult("AccountNotFound", h, d, f, <<>>, 0, 2)
    ELSE IF find_by_account_number(d, to_account_number) = {}
         THEN SvcResult("AccountNotFound", h, d, f, <<>>, 0, 2)
    ELSE LET from_account == d[from_account_number]
             to_account == d[to_account_number] IN
         IF ~h[from_account].is_active THEN SvcResult("AccountInactive", h, d, f, <<>>, 0, 2)
         ELSE IF ~h[to_account].is_active THEN SvcResult("AccountInactive", h, d, f, <<>>, 0, 2)
         ELSE LET r == transfer_to(h, from_account, to_account, amount) IN
              IF r.err # "ok" THEN SvcResult(r.err, h, d, f, <<>>, 0, 2)
              ELSE LET u1 == update(df, d, r.accounts, f, from_account, io1)
                       u2 == update(df, u1._data, r.accounts, u1.file, to_account, io2)
                   IN SvcResult("ok", r.accounts, u2._data, u2.file, r.ret,
                                u1.saved + u2.saved, 2)
                      @@ [snapshots |-> <<u1.file, u2.file>>]

\* ---------------------------------------------------------------- daily limit
\* the clock ticks of one calendar day; datetime.date() of a timestamp
TicksPerDay == 2
date(timestamp) == timestamp \div TicksPerDay

\* TransactionService.get_daily_transaction_limit, in whole currency units
get_daily_transaction_limit(account_type) ==
    CASE account_type = SAVINGS -> 5000
      [] account_type = CHECKING -> 10000
      [] account_type = BUSINESS -> 50000
      [] OTHER -> 1000

\* sum(...) of the float amounts of a list of transactions, added from the
\* left starting at 0; the amount of a record is float(amount_decimal)
RECURSIVE sum(_)
sum(transactions) ==
    IF transactions = <<>> THEN float(0, 1)
    ELSE float_add(sum(SubSeq(transactions, 1, Len(transactions) - 1)),
                   float(transactions[Len(transactions)].amount, 100))

\* TransactionService.check_daily_limit; amount in mills, not negative
check_daily_limit(d, h, account_number, amount) ==
    IF find_by_account_number(d, account_number) = {}
    THEN [err |-> "AccountNotFound", ret |-> <<>>]
    ELSE LET account == h[d[account_number]]
             daily_limit == get_daily_transaction_limit(account.account_type)
             today == date(now)
             counted(t) == /\ date(t.timestamp) = today
                           /\ t.type \in {"Withdrawal", "Transfer Out"}
             today_total == sum(SelectSeq(account.transactions, counted))
         IN [err |-> "ok",
             ret |-> <<LimbsLeq(float_add(today_total, float(amount, 1000)),
                                float(daily_limit, 1))>>]

\* ---------------------------------------------------------------- controllers
\* Settings.get_minimum_balance with the default settings, in whole units
get_minimum_balance(account_type) ==
    CASE account_type = SAVINGS -> 100
      [] account_type = CHECKING -> 50
      [] account_type = BUSINESS -> 500
      [] OTHER -> 0

\* AccountService.get_minimum_balance_requirement
get_minimum_balance_requirement(account_type) ==
    CASE account_type = SAVINGS -> 100
      [] account_type = CHECKING -> 50
      [] account_type = BUSINESS -> 500
      [] OTHER -> 0

\* Validators.validate_amount: amount in mills; the amounts modelled are far
\* below the maximum of 1000000000
validate_amount(amount) == amount > 0 /\ amount % 10 = 0

\* Account.getBalance
getBalance(a) == float(a.balance, 100)

\* one call of the TransactionService made by a controller
ServiceCall(op, number, amount, ret) ==
    [op |-> op, number |-> number, amount |-> amount, ret |-> ret]

Handled(h, d, f, saves, service_calls) ==
    [accounts |-> h, _data |-> d, file |-> f, saves |-> saves,
     service_calls |-> service_calls]

\* the amount passes the prompt loop of a controller: it is valid and at most
\* the balance less the minimum balance
amount_accepted(account, amount) ==
    LET min_balance == float(get_minimum_balance(account.account_type), 1)
    IN /\ ~LimbsLeq(getBalance(account), min_balance)
       /\ validate_amount(amount)
       /\ LimbsLeq(float(amount, 1000), float_sub(getBalance(account), min_balance))

\* CustomerController._make_withdrawal: account_index is the account chosen
\* (0: none), amount the first amount the prompt loop accepts, confirm the
\* answer to the confirmation
_make_withdrawal(df, d, h, f, customer, account_index, amount, confirm, io) ==
    LET accounts_ == find_by_owner(d, h, customer)
        usable(o) == h[o].is_active /\ h[o].balance > 0
        active_accounts == SelectSeq(accounts_, usable)
    IN IF account_index \notin 1..Len(active_accounts) THEN Handled(h, d, f, 0, <<>>)
       ELSE LET selected_account == h[active_accounts[account_index]]
                number == selected_account.accountNumber
                within == check_daily_limit(d, h, number, amount)
                checked == ServiceCall("check_daily_limit", number, amount, within.ret)
            IN IF ~amount_accepted(selected_account, amount) THEN Handled(h, d, f, 0, <<>>)
               ELSE IF within.err # "ok" THEN Handled(h, d, f, 0, <<checked>>)
               ELSE IF ~within.ret[1] THEN Handled(h, d, f, 0, <<checked>>)
               ELSE IF ~confirm THEN Handled(h, d, f, 0, <<checked>>)
               ELSE LET r == make_withdrawal(df, d, h, f, number, amount, io)
                    IN Handled(r.accounts, r._data, r.file, r.saves,
                               <<checked, ServiceCall("make_withdrawal", number, amount,
                                                      <<r.err>>)>>)

\* CustomerController._transfer_funds: from_index and to_index are the
\* accounts chosen in the two lists shown (0: none)
_transfer_funds(df, d, h, f, customer, from_index, to_index, amount, confirm, io1, io2) ==
    LET accounts_ == find_by_owner(d, h, customer)
        active(o) == h[o].is_active
        funded(o) == h[o].balance > 0
        active_accounts == SelectSeq(accounts_, active)
        source_accounts == SelectSeq(active_accounts, funded)
    IN IF Len(active_accounts) < 2 \/ from_index \notin 1..Len(source_accounts)
       THEN Handled(h, d, f, 0, <<>>)
       ELSE LET from_account == h[source_accounts[from_index]]
                other(o) == h[o].accountNumber # from_account.accountNumber
                to_accounts == SelectSeq(active_accounts, other)
            IN IF to_index \notin 1..Len(to_accounts) THEN Handled(h, d, f, 0, <<>>)
               ELSE IF ~amount_accepted(from_account, amount) THEN Handled(h, d, f, 0, <<>>)
               ELSE IF ~confirm THEN Handled(h, d, f, 0, <<>>)
               ELSE LET to_account == h[to_accounts[to_index]]
                        r == transfer_funds(df, d, h, f, from_account.accountNumber,
                                            to_account.accountNumber, amount, io1, io2)
                    IN Handled(r.accounts, r._data, r.file, r.saves,
                               <<ServiceCall("transfer_funds", from_account.accountNumber,
                                             amount, <<r.err>>)>>)

\* ---------------------------------------------------------------- state machine
\* ---------------------------------------------------------------- users
\* User._hash_password: SHA-256 of the password salted with the user id,
\* taken as free of collisions
_hash_password(userId, password) == <<password, userId>>

\* Customer.__init__ / Manager.__init__ (user_type is the class name)
User(user_type, userId, username, password, email) ==
    [user_type |-> user_type, userId |-> userId, username |-> username,
     passwordHash |-> _hash_password(userId, password), email |-> email,
     is_active |-> TRUE, _accounts |-> <<>>]

\* Customer.add_account: the account is appended to the customer's list.  Its
\* callers have set the owner_id of the account to the customer's id before
\* the call, so the assignment of owner_id changes nothing.  A Customer object
\* that is not stored in the UserRepository is no part of the state.
add_account(us, customer_id, o) ==
    IF customer_id \in DOMAIN us /\ us[customer_id].user_type = "Customer"
    THEN [us EXCEPT ![customer_id]._accounts = Append(@, o)]
    ELSE us

\* UserRepository._deserialize_item for every user of the file, when the file
\* holds the users as they are: a Customer starts with an empty account list
deserialize_users(us) == [id \in DOMAIN us |-> [us[id] EXCEPT !._accounts = <<>>]]

\* UserRepository.find_by_username (the set is empty when there is none)
find_by_username(us, username) == {id \in DOMAIN us : us[id].username = username}
username_exists(us, username) == find_by_username(us, username) # {}

\* UserRepository.find_by_email / email_exists
find_by_email(us, email) == {id \in DOMAIN us : us[id].email = email}
email_exists(us, email) == email # <<>> /\ find_by_email(us, email) # {}

UserResult(err, us) == [err |-> err, users |-> us]

\* BaseRepository.add for a user
add_user(us, user) ==
    [id \in DOMAIN us \cup {user.userId} |-> IF id = user.userId THEN user ELSE us[id]]

\* variant of create_customer that does not look for the username
create_customer_unchecked(us, userId, username, password, email) ==
    IF email # <<>> /\ email_exists(us, email) THEN UserResult("EmailExists", us)
    ELSE UserResult("ok", add_user(us, User("Customer", userId, username, password, email)))

\* UserRepository.create_customer / UserService.register_customer; userId is
\* the uuid the constructor draws
create_customer(us, userId, username, password, email) ==
    IF username_exists(us, username) THEN UserResult("UsernameExists", us)
    ELSE IF email # <<>> /\ email_exists(us, email) THEN UserResult("EmailExists", us)
    ELSE UserResult("ok", add_user(us, User("Customer", userId, username, password, email)))

\* UserRepository.create_manager / UserService.create_manager
create_manager(us, userId, username, password, email) ==
    IF username_exists(us, username) THEN UserResult("UsernameExists", us)
    ELSE IF email # <<>> /\ email_exists(us, email) THEN UserResult("EmailExists", us)
    ELSE UserResult("ok", add_user(us, User("Manager", userId, username, password, email)))

\* UserService.deactivate_user / activate_user
deactivate_user(us, user_id) ==
    IF user_id \in DOMAIN us
    THEN UserResult("ok", [us EXCEPT ![user_id].is_active = FALSE])
    ELSE UserResult("False", us)

activate_user(us, user_id) ==
    IF user_id \in DOMAIN us
    THEN UserResult("ok", [us EXCEPT ![user_id].is_active = TRUE])
    ELSE UserResult("False", us)

\* UserService.change_user_password
change_user_password(us, user_id, old_password, new_password) ==
    IF user_id \notin DOMAIN us THEN UserResult("UserNotFound", us)
    ELSE IF us[user_id].passwordHash # _hash_password(user_id, old_password)
    THEN UserResult("IncorrectPassword", us)
    ELSE UserResult("ok", [us EXCEPT ![user_id].passwordHash =
                                         _hash_password(user_id, new_password)])

\* UserService.update_user_profile
update_user_profile(us, user_id, email) ==
    IF user_id \notin DOMAIN us THEN UserResult("UserNotFound", us)
    ELSE IF /\ email # <<>>
            /\ email # us[user_id].email
            /\ \E id \in find_by_email(us, email) : id # user_id
    THEN UserResult("EmailInUse", us)
    ELSE UserResult("ok", IF email # <<>> THEN [us EXCEPT ![user_id].email = email] ELSE us)

\* the loop of delete_customer over the accounts of the customer; ios are the
\* outcomes of the snapshot writes, one per deleted account
RECURSIVE delete_accounts(_, _, _, _, _, _)
delete_accounts(df, d, h, f, customer_accounts, ios) ==
    IF customer_accounts = <<>> THEN [_data |-> d, file |-> f]
    ELSE LET r == delete(df, d, h, f, h[Head(customer_accounts)].accountNumber, Head(ios))
         IN delete_accounts(df, r._data, h, r.file, Tail(customer_accounts), Tail(ios))

DeleteResult(err, d, f, us, saves) ==
    [err |-> err, _data |-> d, file |-> f, users |-> us, saves |-> saves]

\* variant of delete_customer that does not look at the balances
delete_customer_with_money(df, d, h, f, us, customer_id, ios) ==
    IF customer_id \notin DOMAIN us \/ us[customer_id].user_type # "Customer"
    THEN DeleteResult("False", d, f, us, 0)
    ELSE LET customer_accounts == find_by_owner(d, h, customer_id)
             r == delete_accounts(df, d, h, f, customer_accounts, ios)
         IN DeleteResult("ok", r._data, r.file,
                         [id \in DOMAIN us \ {customer_id} |-> us[id]],
                         Len(customer_accounts))

\* UserService.delete_customer
delete_customer(df, d, h, f, us, customer_id, ios) ==
    IF customer_id \notin DOMAIN us \/ us[customer_id].user_type # "Customer"
    THEN DeleteResult("False", d, f, us, 0)
    ELSE LET customer_accounts == find_by_owner(d, h, customer_id) IN
         IF \E i \in 1..Len(customer_accounts) : h[customer_accounts[i]].balance # 0
         THEN DeleteResult("NonZeroBalance", d, f, us, 0)
         ELSE LET r == delete_accounts(df, d, h, f, customer_accounts, ios)
              IN DeleteResult("ok", r._data, r.file,
                              [id \in DOMAIN us \ {customer_id} |-> us[id]],
                              Len(customer_accounts))

\* ---------------------------------------------------------------- sessions
\* AuthenticationService._session_timeout: timedelta(hours=24), in clock ticks
_session_timeout == TicksPerDay

\* the dict a session token maps to
Session(user_id, timestamp) ==
    [user_id |-> user_id, created_at |-> timestamp, last_activity |-> timestamp]

\* del self._active_sessions[token] for every token of the set
RemoveSessions(sessions, tokens) == [t \in DOMAIN sessions \ tokens |-> sessions[t]]

\* AuthenticationService.create_session; session_token is what
\* secrets.token_urlsafe(32) returns
create_session(sessions, user_id, session_token, timestamp) ==
    [t \in DOMAIN sessions \cup {session_token} |->
        IF t = session_token THEN Session(user_id, timestamp) ELSE sessions[t]]

\* variant of validate_session that leaves last_activity as it is
validate_session_not_sliding(sessions, us, session_token, timestamp) ==
    IF session_token \notin DOMAIN sessions THEN [sessions |-> sessions, ret |-> <<>>]
    ELSE IF timestamp - sessions[session_token].last_activity > _session_timeout
         THEN [sessions |-> RemoveSessions(sessions, {session_token}), ret |-> <<>>]
    ELSE LET user_id == sessions[session_token].user_id IN
         IF user_id \notin DOMAIN us \/ ~us[user_id].is_active
         THEN [sessions |-> RemoveSessions(sessions, {session_token}), ret |-> <<>>]
         ELSE [sessions |-> sessions, ret |-> <<user_id>>]

\* AuthenticationService.validate_session; ret is the id of the user returned,
\* <<>> for None
validate_session(sessions, us, session_token, timestamp) ==
    IF session_token \notin DOMAIN sessions THEN [sessions |-> sessions, ret |-> <<>>]
    ELSE IF timestamp - sessions[session_token].last_activity > _session_timeout
         THEN [sessions |-> RemoveSessions(sessions, {session_token}), ret |-> <<>>]
    ELSE LET sessions1 == [sessions EXCEPT ![session_token].last_activity = timestamp]
             user_id == sessions1[session_token].user_id IN
         IF user_id \notin DOMAIN us \/ ~us[user_id].is_active
         THEN [sessions |-> RemoveSessions(sessions1, {session_token}), ret |-> <<>>]
         ELSE [sessions |-> sessions1, ret |-> <<user_id>>]

\* AuthenticationService.logout
logout(sessions, session_token) ==
    IF session_token \in DOMAIN sessions
    THEN [sessions |-> RemoveSessions(sessions, {session_token}), ret |-> TRUE]
    ELSE [sessions |-> sessions, ret |-> FALSE]

\* AuthenticationService.logout_user
logout_user(sessions, user_id) ==
    LET sessions_to_remove == {t \in DOMAIN sessions : sessions[t].user_id = user_id}
    IN [sessions |-> RemoveSessions(sessions, sessions_to_remove),
        ret |-> Cardinality(sessions_to_remove)]

\* AuthenticationService.cleanup_expired_sessions
cleanup_expired_sessions(sessions, current_time) ==
    LET expired_tokens == {t \in DOMAIN sessions :
                              current_time - sessions[t].last_activity > _session_timeout}
    IN [sessions |-> RemoveSessions(sessions, expired_tokens),
        ret |-> Cardinality(expired_tokens)]

\* ---------------------------------------------------------------- calls
\* outcomes of a snapshot write; without a backing file nothing is written
\* (saves: the number of writes the call makes, which no outcome changes)
IOChoices(saves) ==
    IF data_file /\ saves > 0 THEN IOOutcomes ELSE {"ok"}


Call(op, objs, numbers, amount, err, ret, saves, lookups, io) ==
    [op |-> op, objs |-> objs, numbers |-> numbers, amount |-> amount,
     err |-> err, ret |-> ret, saves |-> saves, lookups |-> lookups,
     io |-> IF data_file /\ saves = Len(io) THEN io ELSE <<>>]

NoCall == [op |-> "none", objs |-> <<>>, numbers |-> <<>>, amount |-> 0,
           err |-> "ok", ret |-> <<>>, saves |-> 0, lookups |-> 0, io |-> <<>>]

\* A run is a sequence of calls.  One call of the run is under observation:
\* last records it, and the run is followed up to that call.  The calls made
\* before it leave last = NoCall.
Observe(call) == last' \in {NoCall, call}

\* calls counts the steps that changed something
Count ==
    /\ calls' = IF <<accounts, _data, file, users, now, _active_sessions>>'
                       # <<accounts, _data, file, users, now, _active_sessions>>
                THEN calls + 1 ELSE calls
    /\ calls' <= MaxCalls

\* a call can be made: the observed call has not been made
Enabled == last = NoCall

\* a fresh installation: no account, no backing file yet
Init ==
    /\ accounts = <<>>
    /\ opening = <<>>
    /\ _data = NoContent
    /\ data_file \in BOOLEAN
    /\ file = NoFile
    /\ last = NoCall
    /\ calls = 0
    /\ now = 0
    /\ users = NoContent
    /\ _active_sessions = NoContent
    /\ issued = {}

\* AccountService.create_account(customer, account_type, initial_deposit)
CreateAccount ==
    /\ Enabled
    /\ \E customer \in Customers, account_type \in TypeInputs,
          initial_deposit \in InitialDeposits, number \in AccountNumbers :
         \E io \in IOChoices(create_account(data_file, _data, accounts, file, customer,
                                           account_type, initial_deposit, number, "ok").saves) :
           \E r \in {create_account(data_file, _data, accounts, file, customer,
                                   account_type, initial_deposit, number, io)} :
           /\ accounts' = r.accounts
           /\ opening' = IF r.err = "ok" THEN Append(opening, r.accounts[r.ret[1]].balance)
                         ELSE opening
           /\ _data' = r._data
           /\ file' = r.file
           /\ users' = IF r.err = "ok" THEN add_account(users, customer, r.ret[1])
                       ELSE users
           /\ Observe(Call("create_account", r.ret,
                           IF r.err = "ok" THEN <<number>> ELSE <<>>, initial_deposit, r.err,
                           <<>>, r.saves, r.lookups, <<io>>))
    /\ UNCHANGED <<data_file, now>>
    /\ UNCHANGED <<_active_sessions, issued>>
    /\ Count

\* account.deposit(amount) on any Account object
Deposit ==
    /\ Enabled
    /\ \E o \in DOMAIN accounts, amount \in Amounts :
           \E r \in {deposit(accounts, o, amount)} :
           /\ accounts' = r.accounts
           /\ Observe(Call("deposit", <<o>>, <<>>, amount, r.err, r.ret, 0, 0, <<>>))
    /\ UNCHANGED <<opening, _data, data_file, file>>
    /\ UNCHANGED <<now, users>>
    /\ UNCHANGED <<_active_sessions, issued>>
    /\ Count

\* account.withdraw(amount) on any Account object
Withdraw ==
    /\ Enabled
    /\ \E o \in DOMAIN accounts, amount \in Amounts :
           \E r \in {withdraw(accounts, o, amount)} :
           /\ accounts' = r.accounts
           /\ Observe(Call("withdraw", <<o>>, <<>>, amount, r.err, r.ret, 0, 0, <<>>))
    /\ UNCHANGED <<opening, _data, data_file, file>>
    /\ UNCHANGED <<now, users>>
    /\ UNCHANGED <<_active_sessions, issued>>
    /\ Count

\* account.transfer_to(to_account, amount) on any two Account objects
TransferTo ==
    /\ Enabled
    /\ \E o \in DOMAIN accounts, t \in DOMAIN accounts, amount \in Amounts :
           \E r \in {transfer_to(accounts, o, t, amount)} :
           /\ accounts' = r.accounts
           /\ Observe(Call("transfer_to", <<o, t>>, <<>>, amount, r.err, r.ret, 0, 0, <<>>))
    /\ UNCHANGED <<opening, _data, data_file, file>>
    /\ UNCHANGED <<now, users>>
    /\ UNCHANGED <<_active_sessions, issued>>
    /\ Count

\* account.deposit(amount) with an amount of three fractional digits
DepositFraction ==
    /\ Enabled
    /\ \E o \in DOMAIN accounts, amount \in FractionAmounts :
           \E r \in {deposit(accounts, o, amount)} :
           /\ accounts' = r.accounts
           /\ Observe(Call("deposit", <<o>>, <<>>, amount, r.err, r.ret, 0, 0, <<>>))
    /\ UNCHANGED <<opening, _data, data_file, file, now, users>>
    /\ UNCHANGED <<_active_sessions, issued>>
    /\ Count

\* account.withdraw(amount) with an amount of three fractional digits
WithdrawFraction ==
    /\ Enabled
    /\ \E o \in DOMAIN accounts, amount \in FractionAmounts :
           \E r \in {withdraw(accounts, o, amount)} :
           /\ accounts' = r.accounts
           /\ Observe(Call("withdraw", <<o>>, <<>>, amount, r.err, r.ret, 0, 0, <<>>))
    /\ UNCHANGED <<opening, _data, data_file, file, now, users>>
    /\ UNCHANGED <<_active_sessions, issued>>
    /\ Count

\* account.transfer_to(to_account, amount) with an amount of three fractional
\* digits
TransferFraction ==
    /\ Enabled
    /\ \E o \in DOMAIN accounts, t \in DOMAIN accounts, amount \in FractionAmounts :
           \E r \in {transfer_to(accounts, o, t, amount)} :
           /\ accounts' = r.accounts
           /\ Observe(Call("transfer_to", <<o, t>>, <<>>, amount, r.err, r.ret, 0, 0, <<>>))
    /\ UNCHANGED <<opening, _data, data_file, file, now, users>>
    /\ UNCHANGED <<_active_sessions, issued>>
    /\ Count

\* AccountService.deactivate_account(account_number)
DeactivateAccount ==
    /\ Enabled
    /\ \E number \in AccountNumbers :
         \E io \in IOChoices(deactivate_account(data_file, _data, accounts, file, number, "ok").saves) :
           \E r \in {deactivate_account(data_file, _data, accounts, file, number, io)} :
           /\ accounts' = r.accounts
           /\ _data' = r._data
           /\ file' = r.file
           /\ Observe(Call("deactivate_account", <<>>, <<number>>, 0,
                           IF r.ok THEN "ok" ELSE "False", <<>>, r.saves, 1, <<io>>))
    /\ UNCHANGED <<opening, data_file>>
    /\ UNCHANGED <<now, users>>
    /\ UNCHANGED <<_active_sessions, issued>>
    /\ Count

\* AccountService.activate_account(account_number)
ActivateAccount ==
    /\ Enabled
    /\ \E number \in AccountNumbers :
         \E io \in IOChoices(activate_account(data_file, _data, accounts, file, number, "ok").saves) :
           \E r \in {activate_account(data_file, _data, accounts, file, number, io)} :
           /\ accounts' = r.accounts
           /\ _data' = r._data
           /\ file' = r.file
           /\ Observe(Call("activate_account", <<>>, <<number>>, 0,
                           IF r.ok THEN "ok" ELSE "False", <<>>, r.saves, 1, <<io>>))
    /\ UNCHANGED <<opening, data_file>>
    /\ UNCHANGED <<now, users>>
    /\ UNCHANGED <<_active_sessions, issued>>
    /\ Count

\* TransactionService.make_deposit(account_number, amount)
MakeDeposit ==
    /\ Enabled
    /\ \E number \in AccountNumbers, amount \in Amounts :
         \E io \in IOChoices(make_deposit(data_file, _data, accounts, file, number, amount, "ok").saves) :
           \E r \in {make_deposit(data_file, _data, accounts, file, number, amount, io)} :
           /\ accounts' = r.accounts
           /\ _data' = r._data
           /\ file' = r.file
           /\ Observe(Call("make_deposit", <<>>, <<number>>, amount, r.err, r.ret,
                           r.saves, r.lookups, <<io>>))
    /\ UNCHANGED <<opening, data_file>>
    /\ UNCHANGED <<now, users>>
    /\ UNCHANGED <<_active_sessions, issued>>
    /\ Count

\* TransactionService.make_withdrawal(account_number, amount)
MakeWithdrawal ==
    /\ Enabled
    /\ \E number \in AccountNumbers, amount \in Amounts :
         \E io \in IOChoices(make_withdrawal(data_file, _data, accounts, file, number, amount, "ok").saves) :
           \E r \in {make_withdrawal(data_file, _data, accounts, file, number, amount, io)} :
           /\ accounts' = r.accounts
           /\ _data' = r._data
           /\ file' = r.file
           /\ Observe(Call("make_withdrawal", <<>>, <<number>>, amount, r.err, r.ret,
                           r.saves, r.lookups, <<io>>))
    /\ UNCHANGED <<opening, data_file>>
    /\ UNCHANGED <<now, users>>
    /\ UNCHANGED <<_active_sessions, issued>>
    /\ Count

\* TransactionService.transfer_funds(from_account_number, to_account_number, amount)
TransferFunds ==
    /\ Enabled
    /\ \E from_number \in AccountNumbers, to_number \in AccountNumbers, amount \in Amounts :
         \E io1, io2 \in IOChoices(transfer_funds(data_file, _data, accounts, file, from_number,
                                                  to_number, amount, "ok", "ok").saves) :
           \E r \in {transfer_funds(data_file, _data, accounts, file, from_number, to_number,
                                   amount, io1, io2)} :
           /\ accounts' = r.accounts
           /\ _data' = r._data
           /\ file' = r.file
           /\ Observe(Call("transfer_funds", <<>>, <<from_number, to_number>>, amount,
                           r.err, r.ret, r.saves, r.lookups, <<io1, io2>>)
                      @@ [snapshots |-> IF r.err = "ok" THEN r.snapshots ELSE <<>>])
    /\ UNCHANGED <<opening, data_file>>
    /\ UNCHANGED <<now, users>>
    /\ UNCHANGED <<_active_sessions, issued>>
    /\ Count

\* account_repository.add(account) with any Account object
Add ==
    /\ Enabled
    /\ \E o \in DOMAIN accounts :
         \E io \in IOChoices(1) :
           \E r \in {add(data_file, _data, accounts, file, o, io)} :
           /\ _data' = r._data
           /\ file' = r.file
           /\ Observe(Call("add", <<o>>, <<accounts[o].accountNumber>>, 0, "ok", <<>>,
                           1, 0, <<io>>))
    /\ UNCHANGED <<accounts, opening, data_file, now, users>>
    /\ UNCHANGED <<_active_sessions, issued>>
    /\ Count

\* account_repository.update(account) with any Account object
Update ==
    /\ Enabled
    /\ \E o \in DOMAIN accounts :
         \E io \in IOChoices(update(data_file, _data, accounts, file, o, "ok").saved) :
           \E r \in {update(data_file, _data, accounts, file, o, io)} :
           /\ _data' = r._data
           /\ file' = r.file
           /\ Observe(Call("update", <<o>>, <<accounts[o].accountNumber>>, 0,
                           IF r.ok THEN "ok" ELSE "False", <<>>, r.saved, 0, <<io>>))
    /\ UNCHANGED <<accounts, opening, data_file, now, users>>
    /\ UNCHANGED <<_active_sessions, issued>>
    /\ Count

\* account_repository.delete(item_id)
Delete ==
    /\ Enabled
    /\ \E item_id \in AccountNumbers :
         \E io \in IOChoices(delete(data_file, _data, accounts, file, item_id, "ok").saved) :
           \E r \in {delete(data_file, _data, accounts, file, item_id, io)} :
           /\ _data' = r._data
           /\ file' = r.file
           /\ Observe(Call("delete", <<>>, <<item_id>>, 0,
                           IF r.ok THEN "ok" ELSE "False", <<>>, r.saved, 0, <<io>>))
    /\ UNCHANGED <<accounts, opening, data_file, now, users>>
    /\ UNCHANGED <<_active_sessions, issued>>
    /\ Count

\* account_repository.clear()
Clear ==
    /\ Enabled
    /\ \E io \in IOChoices(1) :
         \E r \in {clear(data_file, _data, accounts, file, io)} :
           /\ _data' = r._data
           /\ file' = r.file
           /\ Observe(Call("clear", <<>>, <<>>, 0, "ok", <<>>, 1, 0, <<io>>))
    /\ UNCHANGED <<accounts, opening, data_file, now, users>>
    /\ UNCHANGED <<_active_sessions, issued>>
    /\ Count

\* account_repository.save_data()
SaveData ==
    /\ Enabled
    /\ \E io \in IOChoices(1) :
           /\ file' = save_data(data_file, _data, accounts, file, io)
           /\ Observe(Call("save_data", <<>>, <<>>, 0, "ok", <<>>, 1, 0, <<io>>))
    /\ UNCHANGED <<accounts, opening, _data, data_file, now, users>>
    /\ UNCHANGED <<_active_sessions, issued>>
    /\ Count

\* account_repository.load_data() on the running repository; the objects it
\* held stay where they are, for whoever still refers to them
LoadData ==
    /\ Enabled
    /\ \E r \in {load_data(data_file, _data, accounts, file)} :
           /\ accounts' = r.accounts
           /\ opening' = opening \o [i \in 1..(Len(r.accounts) - Len(accounts)) |->
                                        r.accounts[Len(accounts) + i].balance]
           /\ _data' = r._data
           /\ Observe(Call("load_data", <<>>, <<>>, 0, "ok", <<>>, 0, 0, <<>>))
    /\ UNCHANGED <<data_file, file, now, users>>
    /\ UNCHANGED <<_active_sessions, issued>>
    /\ Count

\* the program ends and starts again: AccountRepository(data_file) in a new
\* process, where the objects of the old one are gone
Restart ==
    /\ Enabled
    /\ \E r \in {RepositoryInit(data_file, file)} :
           /\ accounts' = r.accounts
           /\ opening' = [i \in 1..Len(r.accounts) |-> r.accounts[i].balance]
           /\ _data' = r._data
           /\ Observe(Call("__init__", <<>>, <<>>, 0, "ok", <<>>, 0, 0, <<>>))
    /\ UNCHANGED <<data_file, file, now, users>>
    /\ UNCHANGED <<_active_sessions, issued>>
    /\ Count

\* AccountService.transfer_account_ownership(account_number, new_owner);
\* new_owner.add_account sets the owner_id the repository has just set
TransferAccountOwnership ==
    /\ Enabled
    /\ \E number \in AccountNumbers, new_owner \in UserIds :
         \E io \in IOChoices(transfer_ownership(data_file, _data, accounts, file, number,
                                                new_owner, "ok").saves) :
           \E r \in {transfer_ownership(data_file, _data, accounts, file, number,
                                        new_owner, io)} :
           /\ accounts' = r.accounts
           /\ _data' = r._data
           /\ file' = r.file
           /\ users' = IF r.ok THEN add_account(users, new_owner, _data[number]) ELSE users
           /\ Observe(Call("transfer_account_ownership", <<>>, <<number>>, 0,
                           IF r.ok THEN "ok" ELSE "AccountNotFound", <<>>, r.saves,
                           IF r.ok THEN 2 ELSE 1, <<io>>)
                      @@ [user |-> new_owner])
    /\ UNCHANGED <<opening, data_file, now>>
    /\ UNCHANGED <<_active_sessions, issued>>
    /\ Count

\* account.get_transaction_history(limit) on any Account object
GetTransactionHistory ==
    /\ Enabled
    /\ \E o \in DOMAIN accounts, limit \in Limits :
           Observe(Call("get_transaction_history", <<o>>, <<>>, 0, "ok",
                        <<get_transaction_history(accounts[o], limit)>>, 0, 0, <<>>)
                   @@ [limit |-> limit])
    /\ UNCHANGED <<accounts, opening, _data, data_file, file, now, users>>
    /\ UNCHANGED <<_active_sessions, issued>>
    /\ Count

\* time passes
Tick ==
    /\ Enabled
    /\ now' = now + 1
    /\ UNCHANGED <<accounts, opening, _data, data_file, file, last, users>>
    /\ UNCHANGED <<_active_sessions, issued>>
    /\ Count

\* account_service.create_account with a large initial deposit
CreateLargeAccount ==
    /\ Enabled
    /\ \E customer \in Customers, account_type \in TypeInputs,
          initial_deposit \in LargeDeposits, number \in AccountNumbers :
         \E io \in IOChoices(create_account(data_file, _data, accounts, file, customer,
                                           account_type, initial_deposit, number, "ok").saves) :
           \E r \in {create_account(data_file, _data, accounts, file, customer,
                                   account_type, initial_deposit, number, io)} :
           /\ accounts' = r.accounts
           /\ opening' = IF r.err = "ok" THEN Append(opening, r.accounts[r.ret[1]].balance)
                         ELSE opening
           /\ _data' = r._data
           /\ file' = r.file
           /\ users' = IF r.err = "ok" THEN add_account(users, customer, r.ret[1])
                       ELSE users
           /\ Observe(Call("create_account", r.ret,
                           IF r.err = "ok" THEN <<number>> ELSE <<>>, initial_deposit, r.err,
                           <<>>, r.saves, r.lookups, <<io>>))
    /\ UNCHANGED <<data_file, now>>
    /\ UNCHANGED <<_active_sessions, issued>>
    /\ Count

\* transaction_service.make_deposit with an amount around the daily limits
MakeLargeDeposit ==
    /\ Enabled
    /\ \E number \in AccountNumbers, amount \in LimitAmounts :
         \E io \in IOChoices(make_deposit(data_file, _data, accounts, file, number, amount, "ok").saves) :
           \E r \in {make_deposit(data_file, _data, accounts, file, number, amount, io)} :
           /\ accounts' = r.accounts
           /\ _data' = r._data
           /\ file' = r.file
           /\ Observe(Call("make_deposit", <<>>, <<number>>, amount, r.err, r.ret,
                           r.saves, r.lookups, <<io>>))
    /\ UNCHANGED <<opening, data_file, now, users>>
    /\ UNCHANGED <<_active_sessions, issued>>
    /\ Count

\* transaction_service.make_withdrawal with an amount around the daily limits
MakeLargeWithdrawal ==
    /\ Enabled
    /\ \E number \in AccountNumbers, amount \in LimitAmounts :
         \E io \in IOChoices(make_withdrawal(data_file, _data, accounts, file, number, amount, "ok").saves) :
           \E r \in {make_withdrawal(data_file, _data, accounts, file, number, amount, io)} :
           /\ accounts' = r.accounts
           /\ _data' = r._data
           /\ file' = r.file
           /\ Observe(Call("make_withdrawal", <<>>, <<number>>, amount, r.err, r.ret,
                           r.saves, r.lookups, <<io>>))
    /\ UNCHANGED <<opening, data_file, now, users>>
    /\ UNCHANGED <<_active_sessions, issued>>
    /\ Count

\* transaction_service.transfer_funds with an amount around the daily limits
TransferLargeFunds ==
    /\ Enabled
    /\ \E from_number \in AccountNumbers, to_number \in AccountNumbers,
          amount \in LimitAmounts :
         \E io1, io2 \in IOChoices(transfer_funds(data_file, _data, accounts, file, from_number,
                                                  to_number, amount, "ok", "ok").saves) :
           \E r \in {transfer_funds(data_file, _data, accounts, file, from_number, to_number,
                                   amount, io1, io2)} :
           /\ accounts' = r.accounts
           /\ _data' = r._data
           /\ file' = r.file
           /\ Observe(Call("transfer_funds", <<>>, <<from_number, to_number>>, amount,
                           r.err, r.ret, r.saves, r.lookups, <<io1, io2>>))
    /\ UNCHANGED <<opening, data_file, now, users>>
    /\ UNCHANGED <<_active_sessions, issued>>
    /\ Count

\* midnight passes
NextDay ==
    /\ Enabled
    /\ now' = (date(now) + 1) * TicksPerDay
    /\ UNCHANGED <<accounts, opening, _data, data_file, file, last, users>>
    /\ UNCHANGED <<_active_sessions, issued>>
    /\ Count

\* transaction_service.check_daily_limit(account_number, amount)
CheckDailyLimit ==
    /\ Enabled
    /\ \E number \in AccountNumbers, amount \in LimitAmounts :
         \E r \in {check_daily_limit(_data, accounts, number, amount)} :
           Observe(Call("check_daily_limit", <<>>, <<number>>, amount, r.err, r.ret,
                        0, 1, <<>>))
    /\ UNCHANGED <<accounts, opening, _data, data_file, file, now, users>>
    /\ UNCHANGED <<_active_sessions, issued>>
    /\ Count

\* the record of a user action handled by a controller
Action(op, customer, amount, r, io) ==
    Call(op, <<>>, <<>>, amount, "ok", <<>>, r.saves, 0, io)
    @@ [user |-> customer, service_calls |-> r.service_calls]

\* the customer picks "withdraw" in the menu of the CustomerController
CustomerMakesWithdrawal ==
    /\ Enabled
    /\ \E customer \in Customers, account_index \in 0..2, amount \in LimitAmounts,
          confirm \in BOOLEAN :
         \E io \in IOChoices(_make_withdrawal(data_file, _data, accounts, file, customer,
                                             account_index, amount, confirm, "ok").saves) :
           \E r \in {_make_withdrawal(data_file, _data, accounts, file, customer,
                                     account_index, amount, confirm, io)} :
           /\ accounts' = r.accounts
           /\ _data' = r._data
           /\ file' = r.file
           /\ Observe(Action("_make_withdrawal", customer, amount, r, <<io>>))
    /\ UNCHANGED <<opening, data_file, now, users>>
    /\ UNCHANGED <<_active_sessions, issued>>
    /\ Count

\* the customer picks "transfer" in the menu of the CustomerController
CustomerTransfersFunds ==
    /\ Enabled
    /\ \E customer \in Customers, from_index \in 0..2, to_index \in 0..1,
          amount \in LimitAmounts, confirm \in BOOLEAN :
         \E io1, io2 \in IOChoices(_transfer_funds(data_file, _data, accounts, file, customer,
                                                   from_index, to_index, amount, confirm,
                                                   "ok", "ok").saves) :
           \E r \in {_transfer_funds(data_file, _data, accounts, file, customer,
                                    from_index, to_index, amount, confirm, io1, io2)} :
           /\ accounts' = r.accounts
           /\ _data' = r._data
           /\ file' = r.file
           /\ Observe(Action("_transfer_funds", customer, amount, r, <<io1, io2>>))
    /\ UNCHANGED <<opening, data_file, now, users>>
    /\ UNCHANGED <<_active_sessions, issued>>
    /\ Count

\* the record of a call of the UserService
UserCall(op, user_id, username, err, saves, ios) ==
    Call(op, <<>>, <<>>, 0, err, <<>>, saves, 0, ios)
    @@ [user |-> user_id, username |-> username]

\* user_service.register_customer(username, password, email)
RegisterCustomer ==
    /\ Enabled
    /\ \E userId \in UserIds \ DOMAIN users, username \in Usernames,
          password \in Passwords, email \in Emails :
           \E r \in {create_customer(users, userId, username, password, email)} :
           /\ users' = r.users
           /\ Observe(UserCall("register_customer", userId, username, r.err, 0, <<>>))
    /\ UNCHANGED <<accounts, opening, _data, data_file, file, now>>
    /\ UNCHANGED <<_active_sessions, issued>>
    /\ Count

\* user_service.create_manager(username, password, email=email)
CreateManager ==
    /\ Enabled
    /\ \E userId \in UserIds \ DOMAIN users, username \in Usernames,
          password \in Passwords, email \in Emails :
           \E r \in {create_manager(users, userId, username, password, email)} :
           /\ users' = r.users
           /\ Observe(UserCall("create_manager", userId, username, r.err, 0, <<>>))
    /\ UNCHANGED <<accounts, opening, _data, data_file, file, now>>
    /\ UNCHANGED <<_active_sessions, issued>>
    /\ Count

\* user_service.deactivate_user(user_id)
DeactivateUser ==
    /\ Enabled
    /\ \E user_id \in UserIds :
           \E r \in {deactivate_user(users, user_id)} :
           /\ users' = r.users
           /\ Observe(UserCall("deactivate_user", user_id, "", r.err, 0, <<>>))
    /\ UNCHANGED <<accounts, opening, _data, data_file, file, now>>
    /\ UNCHANGED <<_active_sessions, issued>>
    /\ Count

\* user_service.activate_user(user_id)
ActivateUser ==
    /\ Enabled
    /\ \E user_id \in UserIds :
           \E r \in {activate_user(users, user_id)} :
           /\ users' = r.users
           /\ Observe(UserCall("activate_user", user_id, "", r.err, 0, <<>>))
    /\ UNCHANGED <<accounts, opening, _data, data_file, file, now>>
    /\ UNCHANGED <<_active_sessions, issued>>
    /\ Count

\* user_service.change_user_password(user_id, old_password, new_password)
ChangeUserPassword ==
    /\ Enabled
    /\ \E user_id \in UserIds, old_password \in Passwords, new_password \in Passwords :
           \E r \in {change_user_password(users, user_id, old_password, new_password)} :
           /\ users' = r.users
           /\ Observe(UserCall("change_user_password", user_id, "", r.err, 0, <<>>))
    /\ UNCHANGED <<accounts, opening, _data, data_file, file, now>>
    /\ UNCHANGED <<_active_sessions, issued>>
    /\ Count

\* user_service.update_user_profile(user_id, email=email)
UpdateUserProfile ==
    /\ Enabled
    /\ \E user_id \in UserIds, email \in Emails :
           \E r \in {update_user_profile(users, user_id, email)} :
           /\ users' = r.users
           /\ Observe(UserCall("update_user_profile", user_id, "", r.err, 0, <<>>))
    /\ UNCHANGED <<accounts, opening, _data, data_file, file, now>>
    /\ UNCHANGED <<_active_sessions, issued>>
    /\ Count

\* the application starts again over the users file: UserRepository.__init__
RestartUsers ==
    /\ Enabled
    /\ users' = deserialize_users(users)
    /\ Observe(UserCall("UserRepository.__init__", "", "", "ok", 0, <<>>))
    /\ UNCHANGED <<accounts, opening, _data, data_file, file, now>>
    /\ UNCHANGED <<_active_sessions, issued>>
    /\ Count

\* the record of a call of the AuthenticationService
SessionCall(op, session_token, user_id, ret) ==
    Call(op, <<>>, <<>>, 0, "ok", ret, 0, 0, <<>>) @@ [token |-> session_token, user |-> user_id]

\* authentication_service.create_session(user) for a user of the repository;
\* the token of 256 random bits is one that was not returned before
CreateSession ==
    /\ Enabled
    /\ \E user_id \in DOMAIN users, session_token \in Tokens \ issued :
           /\ _active_sessions' = create_session(_active_sessions, user_id, session_token, now)
           /\ issued' = issued \cup {session_token}
           /\ Observe(SessionCall("create_session", session_token, user_id, <<session_token>>))
    /\ UNCHANGED <<accounts, opening, _data, data_file, file, now, users>>
    /\ Count

\* authentication_service.validate_session(session_token)
ValidateSession ==
    /\ Enabled
    /\ \E session_token \in Tokens :
           \E r \in {validate_session(_active_sessions, users, session_token, now)} :
           /\ _active_sessions' = r.sessions
           /\ Observe(SessionCall("validate_session", session_token, "", r.ret))
    /\ UNCHANGED <<accounts, opening, _data, data_file, file, now, users, issued>>
    /\ Count

\* authentication_service.logout(session_token)
Logout ==
    /\ Enabled
    /\ \E session_token \in Tokens :
           \E r \in {logout(_active_sessions, session_token)} :
           /\ _active_sessions' = r.sessions
           /\ Observe(SessionCall("logout", session_token, "", <<r.ret>>))
    /\ UNCHANGED <<accounts, opening, _data, data_file, file, now, users, issued>>
    /\ Count

\* authentication_service.logout_user(user_id)
LogoutUser ==
    /\ Enabled
    /\ \E user_id \in UserIds :
           \E r \in {logout_user(_active_sessions, user_id)} :
           /\ _active_sessions' = r.sessions
           /\ Observe(SessionCall("logout_user", "", user_id, <<r.ret>>))
    /\ UNCHANGED <<accounts, opening, _data, data_file, file, now, users, issued>>
    /\ Count

\* authentication_service.cleanup_expired_sessions()
CleanupExpiredSessions ==
    /\ Enabled
    /\ \E r \in {cleanup_expired_sessions(_active_sessions, now)} :
           /\ _active_sessions' = r.sessions
           /\ Observe(SessionCall("cleanup_expired_sessions", "", "", <<r.ret>>))
    /\ UNCHANGED <<accounts, opening, _data, data_file, file, now, users, issued>>
    /\ Count

\* time passes and nothing is called
Wait ==
    /\ Enabled
    /\ \E ticks \in Waits : now' = now + ticks
    /\ UNCHANGED <<accounts, opening, _data, data_file, file, last, users,
                   _active_sessions, issued>>
    /\ Count

\* user_service.delete_customer(customer_id)
DeleteCustomer ==
    /\ Enabled
    /\ \E customer_id \in UserIds :
         \E k \in {delete_customer(data_file, _data, accounts, file, users, customer_id,
                                   [i \in 1..MaxCalls |-> "ok"]).saves} :
           \E ios \in [1..k -> IOChoices(k)] :
             \E r \in {delete_customer(data_file, _data, accounts, file, users,
                                       customer_id, ios)} :
             /\ _data' = r._data
             /\ file' = r.file
             /\ users' = r.users
             /\ Observe(UserCall("delete_customer", customer_id, "", r.err, r.saves, ios))
    /\ UNCHANGED <<accounts, opening, data_file, now>>
    /\ UNCHANGED <<_active_sessions, issued>>
    /\ Count

Next ==
    \/ CreateAccount
    \/ Deposit
    \/ Withdraw
    \/ TransferTo
    \/ DeactivateAccount
    \/ ActivateAccount
    \/ MakeDeposit
    \/ MakeWithdrawal
    \/ TransferFunds

Spec == Init /\ [][Next]_vars

\* the repository without a backing file (AccountRepository()): the Account
\* methods never read the file, so their contracts are checked here
InitMemory == Init /\ ~data_file

SpecMemory == InitMemory /\ [][Next]_vars

\* the application: its repository has a backing file, and its controllers
\* reach the accounts through the services only
InitApp == Init /\ data_file

NextApp ==
    \/ CreateAccount
    \/ DeactivateAccount
    \/ ActivateAccount
    \/ MakeDeposit
    \/ MakeWithdrawal
    \/ TransferFunds

SpecApp == InitApp /\ [][NextApp]_vars

\* the repository and its callers: every way the stored accounts change, the
\* snapshot is written and the file is read back
NextRepo ==
    \/ CreateAccount
    \/ Deposit
    \/ Withdraw
    \/ TransferTo
    \/ DeactivateAccount
    \/ TransferAccountOwnership
    \/ Add
    \/ Update
    \/ Delete
    \/ SaveData
    \/ LoadData
    \/ Restart

SpecRepo == InitApp /\ [][NextRepo]_vars

\* the transaction list of an account and its readers, while time passes
NextHistory ==
    \/ CreateAccount
    \/ Deposit
    \/ Withdraw
    \/ TransferTo
    \/ GetTransactionHistory
    \/ Tick

SpecHistory == InitMemory /\ [][NextHistory]_vars

\* every operation that is handed an Account with a transaction list
NextLog ==
    \/ CreateAccount
    \/ Deposit
    \/ Withdraw
    \/ TransferTo
    \/ DeactivateAccount
    \/ ActivateAccount
    \/ GetTransactionHistory
    \/ Add
    \/ Update
    \/ TransferAccountOwnership
    \/ Tick

SpecLog == InitApp /\ [][NextLog]_vars

\* deposits and withdrawals only, made on the Account or through the
\* TransactionService
NextLedger ==
    \/ CreateAccount
    \/ Deposit
    \/ Withdraw
    \/ MakeDeposit
    \/ MakeWithdrawal

SpecLedger == InitMemory /\ [][NextLedger]_vars

\* the customers of the bank and their accounts, through the services
NextCustomers ==
    \/ CreateAccount
    \/ MakeDeposit
    \/ MakeWithdrawal
    \/ TransferFunds
    \/ DeactivateAccount
    \/ TransferAccountOwnership
    \/ RegisterCustomer
    \/ CreateManager
    \/ DeleteCustomer

SpecCustomers == InitApp /\ [][NextCustomers]_vars

\* the users of the bank, through the UserService
NextUsers ==
    \/ RegisterCustomer
    \/ CreateManager
    \/ UpdateUserProfile
    \/ ChangeUserPassword
    \/ ActivateUser
    \/ DeactivateUser
    \/ DeleteCustomer
    \/ CreateAccount

SpecUsers == InitApp /\ [][NextUsers]_vars

\* money leaving an account over the days, and the advisory daily limit
NextLimit ==
    \/ CreateLargeAccount
    \/ MakeLargeDeposit
    \/ MakeLargeWithdrawal
    \/ TransferLargeFunds
    \/ Tick
    \/ NextDay
    \/ CheckDailyLimit

SpecLimit == InitMemory /\ [][NextLimit]_vars

\* a customer at the menu of the CustomerController
NextCustomerMenu ==
    \/ CreateLargeAccount
    \/ CustomerMakesWithdrawal
    \/ CustomerTransfersFunds
    \/ NextDay

SpecCustomerMenu == InitMemory /\ [][NextCustomerMenu]_vars

\* the customers, their account lists and the accounts of the repository
NextOwners ==
    \/ RegisterCustomer
    \/ CreateAccount
    \/ TransferAccountOwnership
    \/ DeleteCustomer
    \/ SaveData
    \/ LoadData
    \/ RestartUsers

SpecOwners == InitApp /\ [][NextOwners]_vars

\* the money methods of Account on amounts that need rounding
NextRounding ==
    \/ CreateAccount
    \/ DepositFraction
    \/ WithdrawFraction
    \/ TransferFraction

SpecRounding == InitMemory /\ [][NextRounding]_vars

\* every operation that writes the snapshot after a change
NextSaves ==
    \/ CreateAccount
    \/ Add
    \/ Update
    \/ Delete
    \/ MakeDeposit
    \/ MakeWithdrawal
    \/ TransferFunds

SpecSaves == InitApp /\ [][NextSaves]_vars

\* backing files left by an earlier run that hold accounts and fail to parse
DamagedFiles ==
    LET a1 == to_dict(Account("A1", 10, SAVINGS, "u1"))
        a2 == to_dict(Account("A2", 0, CHECKING, "u1"))
    IN {[state |-> "partial", content |-> c] :
            c \in {[n \in {"A1"} |-> a1], [n \in {"A1", "A2"} |-> IF n = "A1" THEN a1 ELSE a2]}}

\* the repository has been constructed over a backing file that fails to parse
InitDamaged ==
    /\ file \in DamagedFiles
    /\ data_file = TRUE
    /\ accounts = RepositoryInit(data_file, file).accounts
    /\ opening = <<>>
    /\ _data = RepositoryInit(data_file, file)._data
    /\ last = NoCall
    /\ calls = 0
    /\ now = 0
    /\ users = NoContent
    /\ _active_sessions = NoContent
    /\ issued = {}

NextDamaged ==
    \/ CreateAccount
    \/ Add
    \/ Update
    \/ Delete
    \/ Clear
    \/ Restart

SpecDamaged == InitDamaged /\ [][NextDamaged]_vars

\* backing files left by an earlier run that hold two accounts
StoredFiles ==
    LET a1 == to_dict(Account("A1", 20, SAVINGS, "u1"))
        a2 == to_dict(Account("A2", 10, CHECKING, "u1"))
    IN {[state |-> "written", content |-> [n \in {"A1", "A2"} |-> IF n = "A1" THEN a1 ELSE a2]]}

\* the repository has been constructed over a backing file of two accounts
InitStored ==
    /\ file \in StoredFiles
    /\ data_file = TRUE
    /\ accounts = RepositoryInit(data_file, file).accounts
    /\ opening = [i \in 1..Len(accounts) |-> accounts[i].balance]
    /\ _data = RepositoryInit(data_file, file)._data
    /\ last = NoCall
    /\ calls = 0
    /\ now = 0
    /\ users = NoContent
    /\ _active_sessions = NoContent
    /\ issued = {}

\* the money operations of the TransactionService on stored accounts
NextTransfers ==
    \/ MakeDeposit
    \/ MakeWithdrawal
    \/ TransferFunds

SpecTransfers == InitStored /\ [][NextTransfers]_vars

\* a running application whose UserRepository holds two customers
InitSessions ==
    /\ accounts = <<>>
    /\ opening = <<>>
    /\ _data = NoContent
    /\ data_file = FALSE
    /\ file = NoFile
    /\ last = NoCall
    /\ calls = 0
    /\ now = 0
    /\ _active_sessions = NoContent
    /\ issued = {}
    /\ users = [id \in UserIds |->
                   User("Customer", id, IF id = "u1" THEN "ann" ELSE "bob", "p1", <<>>)]

\* the sessions of the AuthenticationService, the users they belong to, the clock
NextSessions ==
    \/ CreateSession
    \/ ValidateSession
    \/ Logout
    \/ LogoutUser
    \/ CleanupExpiredSessions
    \/ Wait
    \/ DeactivateUser
    \/ ActivateUser
    \/ DeleteCustomer

SpecSessions == InitSessions /\ [][NextSessions]_vars

TypeOK ==
    /\ DOMAIN accounts \subseteq ObjIds
    /\ DOMAIN opening = DOMAIN accounts
    /\ DOMAIN _data \subseteq AccountNumbers
    /\ \A n \in DOMAIN _data : _data[n] \in DOMAIN accounts /\ accounts[_data[n]].accountNumber = n
    /\ file.state \in {"absent", "written", "partial"}
    /\ calls \in 0..MaxCalls

\* ---------------------------------------------------------------- properties
\* what a record adds to the balance of its account
Signed(t) == IF t.type \in {"Deposit", "Transfer In"} THEN t.amount ELSE 0 - t.amount

RECURSIVE Net(_)
Net(log) == IF log = <<>> THEN 0
            ELSE Net(SubSeq(log, 1, Len(log) - 1)) + Signed(log[Len(log)])

\* the observed call, when it is a call of an Account method: self, to_account
Self == last'.objs[1]
Target == last'.objs[2]
Amount == quantize(last'.amount)

\* log2 is log1 with exactly one more record, of the given type and amount
OneMore(log1, log2, type, amount) ==
    /\ Len(log2) = Len(log1) + 1
    /\ SubSeq(log2, 1, Len(log1)) = log1
    /\ log2[Len(log2)].type = type
    /\ log2[Len(log2)].amount = amount

\* C1 as claimed: the balance of every account equals the sum of the amounts
\* of its Deposit and Transfer In records minus the sum of the amounts of its
\* Withdrawal and Transfer Out records, whatever balance it was created with.
C1_BalanceIsNetOfLog ==
    \A o \in DOMAIN accounts : accounts[o].balance = Net(accounts[o].transactions)

\* C1 as amended: the balance of every account equals the normalized balance
\* it was created with plus the net amount of its transaction list.
C1_BalanceIsOpeningPlusNet ==
    \A o \in DOMAIN accounts :
        accounts[o].balance = opening[o] + Net(accounts[o].transactions)

\* an account created with a balance has received a transfer
C1_Witness ==
    /\ last.op = "transfer_to" /\ last.err = "ok"
    /\ last.objs[1] # last.objs[2]
    /\ opening[last.objs[2]] > 0
    /\ last.ret[1].amount > 0

\* C2: no account has a negative balance, whatever calls were made on it
\* directly or through the TransactionService.
C2_NoNegativeBalance == \A o \in DOMAIN accounts : accounts[o].balance >= 0

\* a transfer through the service has emptied the source account
C2_Witness ==
    /\ last.op = "transfer_funds" /\ last.err = "ok"
    /\ last.ret[1].amount > 0
    /\ accounts[_data[last.numbers[1]]].balance = 0

\* C3: a successful transfer_to between two distinct accounts takes the
\* normalized amount from the source and adds it to the target, appends one
\* Transfer Out record to the source and one Transfer In record to the target,
\* both of that amount, and returns the Transfer Out record.
C3_TransferAtomic ==
    [][(last'.op = "transfer_to" /\ last'.err = "ok" /\ Self # Target) =>
          /\ accounts[Self].is_active /\ accounts[Target].is_active
          /\ accounts'[Self].balance = accounts[Self].balance - Amount
          /\ accounts'[Target].balance = accounts[Target].balance + Amount
          /\ OneMore(accounts[Self].transactions, accounts'[Self].transactions,
                     "Transfer Out", Amount)
          /\ OneMore(accounts[Target].transactions, accounts'[Target].transactions,
                     "Transfer In", Amount)
          /\ last'.ret = <<accounts'[Self].transactions[Len(accounts'[Self].transactions)]>>
          /\ \A o \in DOMAIN accounts : o \notin {Self, Target} => accounts'[o] = accounts[o]
      ]_vars

\* one cent has moved from one account to another
C3_Witness ==
    /\ last.op = "transfer_to" /\ last.err = "ok"
    /\ last.objs[1] # last.objs[2]
    /\ last.amount = 10

\* the observed call is a withdraw or a transfer_to that passes the checks
\* made before the funds check: every account involved is active, the amount
\* is positive
DebitCall ==
    /\ last'.op \in {"withdraw", "transfer_to"}
    /\ \A i \in 1..Len(last'.objs) : accounts[last'.objs[i]].is_active
    /\ last'.amount > 0

\* the observed call is a transfer_to from an account to itself
SelfTransfer == last'.op = "transfer_to" /\ Self = Target

C5_InactiveRejected ==
    [][(/\ last'.op \in {"deposit", "withdraw", "transfer_to"}
        /\ \E i \in 1..Len(last'.objs) : ~accounts[last'.objs[i]].is_active) =>
          last'.err = "InactiveAccount" /\ accounts' = accounts
      ]_vars

\* a transfer from an active account to a deactivated one was refused
C5_Witness ==
    /\ last.op = "transfer_to" /\ last.err = "InactiveAccount"
    /\ accounts[last.objs[1]].is_active
    /\ ~accounts[last.objs[2]].is_active

\* the observed call is a deposit, withdraw or transfer_to between active accounts
ActiveCall ==
    /\ last'.op \in {"deposit", "withdraw", "transfer_to"}
    /\ \A i \in 1..Len(last'.objs) : accounts[last'.objs[i]].is_active

\* C6: on active accounts, deposit, withdraw and transfer_to of an amount of 0
\* or less fail with the invalid-amount error whatever the balance and change
\* no account; an amount of 0.01 is accepted by deposit, and by withdraw and
\* transfer_to when the balance is at least 0.01.
C6_InvalidAmount ==
    [][ActiveCall =>
          /\ last'.amount <= 0 => last'.err = "InvalidAmount" /\ accounts' = accounts
          /\ (last'.amount = 10 /\ last'.op = "deposit") => last'.err = "ok"
          /\ (last'.amount = 10 /\ last'.op # "deposit" /\ accounts[Self].balance >= 1) =>
                 last'.err = "ok"
      ]_vars

\* a withdrawal of 0 from an account that holds money was refused
C6_Witness ==
    /\ last.op = "withdraw" /\ last.err = "InvalidAmount"
    /\ last.amount = 0
    /\ accounts[last.objs[1]].balance > 0

\* C7: every record in a transaction list has an amount of at least 0.01.
C7_RecordsPositive ==
    \A o \in DOMAIN accounts :
        \A i \in 1..Len(accounts[o].transactions) : accounts[o].transactions[i].amount >= 1

\* the observed call, when it is a call of the TransactionService
From == last'.numbers[1]
To == last'.numbers[2]
Unchanged == accounts' = accounts /\ _data' = _data /\ file' = file /\ last'.saves = 0

\* C8: transfer_funds from an account number to the same number fails with
\* the same-account error before any lookup: no account, no repository entry
\* and no snapshot changes, whether or not the account exists, is active or
\* holds the amount.
C8_SameAccountRejected ==
    [][(last'.op = "transfer_funds" /\ From = To) =>
          last'.err = "SameAccount" /\ last'.lookups = 0 /\ Unchanged
      ]_vars

\* a transfer of one cent from an existing, active account that holds it to
\* itself was refused
C8_Witness ==
    /\ last.op = "transfer_funds" /\ last.err = "SameAccount"
    /\ last.amount = 10
    /\ last.numbers[1] \in DOMAIN _data
    /\ accounts[_data[last.numbers[1]]].is_active
    /\ accounts[_data[last.numbers[1]]].balance >= 1

\* C9: make_deposit, make_withdrawal and transfer_funds (between two
\* different numbers) fail with account-not-found when a number is absent
\* from the repository, otherwise with account-inactive when an account is
\* inactive; whenever one of them fails, for these reasons or in the Account
\* method, no account and no repository entry changes and no snapshot is
\* written.
C9_ServiceFailures ==
    [][/\ last'.op \in {"make_deposit", "make_withdrawal"} =>
            /\ From \notin DOMAIN _data => last'.err = "AccountNotFound"
            /\ (From \in DOMAIN _data /\ ~accounts[_data[From]].is_active) =>
                   last'.err = "AccountInactive"
       /\ (last'.op = "transfer_funds" /\ From # To) =>
            /\ {From, To} \ DOMAIN _data # {} => last'.err = "AccountNotFound"
            /\ (/\ {From, To} \subseteq DOMAIN _data
                /\ \E n \in {From, To} : ~accounts[_data[n]].is_active) =>
                   last'.err = "AccountInactive"
       /\ (/\ last'.op \in {"make_deposit", "make_withdrawal", "transfer_funds"}
           /\ last'.err # "ok") => Unchanged
      ]_vars

\* a transfer from an active account to a deactivated one was refused by the service
C9_Witness ==
    /\ last.op = "transfer_funds" /\ last.err = "AccountInactive"
    /\ accounts[_data[last.numbers[1]]].is_active
    /\ ~accounts[_data[last.numbers[2]]].is_active

\* the snapshot in the file shows the transfer that the observed call made
SnapshotShowsTransfer ==
    /\ file'.state = "written"
    /\ file'.content = serialized_data(_data', accounts')
    /\ file'.content[From].balance = accounts[_data[From]].balance - Amount
    /\ file'.content[To].balance = accounts[_data[To]].balance + Amount
    /\ OneMore(to_dict(accounts[_data[From]]).transactions,
               file'.content[From].transactions, "Transfer Out", Amount)
    /\ OneMore(to_dict(accounts[_data[To]]).transactions,
               file'.content[To].transactions, "Transfer In", Amount)

Saved == data_file /\ file = save_data(data_file, _data, accounts, file, "ok")

\* the accounts a and b agree on everything that is stored
SameAccount(a, b) ==
    /\ a.accountNumber = b.accountNumber
    /\ a.balance = b.balance
    /\ a.account_type = b.account_type
    /\ a.owner_id = b.owner_id
    /\ a.is_active = b.is_active
    /\ Len(a.transactions) = Len(b.transactions)
    /\ \A i \in 1..Len(a.transactions) :
           /\ a.transactions[i].transactionId = b.transactions[i].transactionId
           /\ a.transactions[i].type = b.transactions[i].type
           /\ a.transactions[i].amount = b.transactions[i].amount

WroteSnapshot ==
    /\ last'.saves = 1
    /\ last'.io = <<"ok">> =>
           file' = [state |-> "written", content |-> serialized_data(_data', accounts')]

\* C12: update(item) with an id that is not stored and delete(id) with such an
\* id return False, store and remove nothing and write no snapshot; with a
\* stored id they return True, update stores the item under the id and leaves
\* the other entries, delete removes the entry and leaves the others, and both
\* write the snapshot.
C12_AbsentIdNoOp ==
    [][/\ (last'.op \in {"update", "delete"} /\ last'.numbers[1] \notin DOMAIN _data) =>
            last'.err = "False" /\ Unchanged
       /\ (last'.op = "update" /\ last'.numbers[1] \in DOMAIN _data) =>
            /\ last'.err = "ok"
            /\ DOMAIN _data' = DOMAIN _data
            /\ _data'[last'.numbers[1]] = last'.objs[1]
            /\ \A n \in DOMAIN _data \ {last'.numbers[1]} : _data'[n] = _data[n]
            /\ accounts' = accounts
            /\ WroteSnapshot
       /\ (last'.op = "delete" /\ last'.numbers[1] \in DOMAIN _data) =>
            /\ last'.err = "ok"
            /\ DOMAIN _data' = DOMAIN _data \ {last'.numbers[1]}
            /\ \A n \in DOMAIN _data' : _data'[n] = _data[n]
            /\ accounts' = accounts
            /\ WroteSnapshot
      ]_vars

\* update(item) was refused for an item whose account number is not stored,
\* while another account is
C12_Witness ==
    /\ last.op = "update" /\ last.err = "False"
    /\ last.numbers[1] \notin DOMAIN _data
    /\ DOMAIN _data # {}

\* how many times the list names the object
Occurrences(list, o) == Cardinality({i \in 1..Len(list) : list[i] = o})

\* C13: after add(x) the repository returns x for the id of x, has one more
\* entry if the id was absent and as many as before if it was present, and
\* lists x once among the accounts of its owner; adding again the object
\* stored under its id changes no entry and no count of the owner's summary.
\* The entry of an id changes only when an item of that id is added or
\* updated, the id is deleted, or the file is loaded.
C13_AddKeyed ==
    [][/\ last'.op = "add" =>
            LET x == last'.objs[1]
                id == last'.numbers[1]
                owner == accounts[x].owner_id
            IN /\ find_by_account_number(_data', id) = {x}
               /\ DOMAIN _data' = DOMAIN _data \cup {id}
               /\ \A n \in DOMAIN _data \ {id} : _data'[n] = _data[n]
               /\ Cardinality(DOMAIN _data') =
                      Cardinality(DOMAIN _data) + (IF id \in DOMAIN _data THEN 0 ELSE 1)
               /\ Occurrences(find_by_owner(_data', accounts', owner), x) = 1
               /\ find_by_account_number(_data, id) = {x} =>
                      /\ _data' = _data
                      /\ get_account_summary(_data', accounts', owner) =
                             get_account_summary(_data, accounts, owner)
       /\ \A n \in DOMAIN _data :
            (_data' = NoContent \/ n \notin DOMAIN _data' \/ _data'[n] # _data[n]) =>
                \/ last'.op \in {"add", "update", "create_account"} /\ last'.numbers = <<n>>
                \/ last'.op = "delete" /\ last'.numbers = <<n>>
                \/ last'.op \in {"load_data", "__init__", "none"}
      ]_vars

\* an account made by create_account was added again, next to another account
C13_Witness ==
    /\ last.op = "add"
    /\ Cardinality(DOMAIN _data) = 2
    /\ _data[last.numbers[1]] = last.objs[1]
    /\ calls = 2

\* C14: load_data() on a repository whose backing file is missing or cannot
\* be parsed returns normally and leaves the collection empty, whatever the
\* collection held before.
C14_LoadFailureEmpties ==
    [][(last'.op = "load_data" /\ file.state # "written") =>
          last'.err = "ok" /\ _data' = NoContent
      ]_vars

\* C15: get_transaction_history(limit) returns the transactions of the
\* account newest first, at most limit of them when a limit is given (0
\* included), all of them when none is given, and changes nothing.
C15_HistoryNewestFirstLimited ==
    [][last'.op = "get_transaction_history" =>
          LET log == accounts[Self].transactions
              history == last'.ret[1]
          IN /\ \A i, j \in 1..Len(history) :
                   i < j => history[i].timestamp >= history[j].timestamp
             /\ \A i \in 1..Len(history) : Occurrences(history, history[i]) = 1
             /\ \A i \in 1..Len(history) : Occurrences(log, history[i]) = 1
             /\ last'.limit # <<>> => Len(history) <= last'.limit[1]
             /\ last'.limit = <<>> => Len(history) = Len(log)
             /\ UNCHANGED <<accounts, _data, file>>
      ]_vars

IsPrefix(s, t) == Len(s) <= Len(t) /\ SubSeq(t, 1, Len(s)) = s

\* C16: the transaction list of an Account only grows at its end: over every
\* step (deposit, withdraw, transfer_to, activate, deactivate,
\* get_transaction_history, repository add and update, ownership transfer)
\* the list before the step is a prefix of the list after it, field by field.
C16_LogAppendOnly ==
    [][\A o \in DOMAIN accounts :
          /\ o \in DOMAIN accounts'
          /\ IsPrefix(accounts[o].transactions, accounts'[o].transactions)
      ]_vars

\* a withdrawal was appended behind at least one older transaction
C16_Witness ==
    /\ last.op = "withdraw"
    /\ last.err = "ok"
    /\ Len(accounts[last.objs[1]].transactions) >= 2
    /\ accounts[last.objs[1]].transactions[Len(accounts[last.objs[1]].transactions)]
           = last.ret[1]

\* C17: deactivate and activate set is_active and touch nothing else of the
\* account (balance, transactions, number, type, owner) nor any other
\* account; a second call in a row leaves what the first one left.
C17_FlagOnly ==
    [][(last'.op \in {"deactivate_account", "activate_account"} /\ last'.err = "ok") =>
          LET o == _data[From]
              flag == (last'.op = "activate_account")
          IN /\ accounts' = [accounts EXCEPT ![o].is_active = flag]
             /\ deactivate(deactivate(accounts, o), o) = deactivate(accounts, o)
             /\ activate(activate(accounts, o), o) = activate(accounts, o)
             /\ accounts[o].is_active = flag => accounts' = accounts
      ]_vars

\* an account holding money and a transaction has been deactivated
C17_Witness ==
    /\ last.op = "deactivate_account"
    /\ last.err = "ok"
    /\ ~accounts[_data[last.numbers[1]]].is_active
    /\ accounts[_data[last.numbers[1]]].balance > 0
    /\ accounts[_data[last.numbers[1]]].transactions # <<>>

RECURSIVE Sum(_, _)
Sum(log, type) ==
    IF log = <<>> THEN 0
    ELSE Sum(SubSeq(log, 1, Len(log) - 1), type)
         + (IF log[Len(log)].type = type THEN log[Len(log)].amount ELSE 0)

\* the account of the observed deposit or withdrawal: the object of a direct
\* call, the stored account of a call through the TransactionService
Holder == IF last'.op \in {"deposit", "withdraw"} THEN Self ELSE _data[From]

\* C18: a successful deposit (withdrawal), direct or through the
\* TransactionService, adds (takes) exactly the amount deposited (withdrawn),
\* as normalized and recorded, and appends one Deposit (Withdrawal) record;
\* a failed one changes no account; so after any sequence of them the
\* balance is the opening balance plus the deposits minus the withdrawals
\* and every record stands for one successful operation.
C18_DepositsAndWithdrawalsAddUp ==
    /\ [](\A o \in DOMAIN accounts :
            /\ accounts[o].balance
                  = opening[o] + Sum(accounts[o].transactions, "Deposit")
                               - Sum(accounts[o].transactions, "Withdrawal")
            /\ \A i \in 1..Len(accounts[o].transactions) :
                  accounts[o].transactions[i].type \in {"Deposit", "Withdrawal"})
    /\ [][/\ (last'.op \in {"deposit", "make_deposit"} /\ last'.err = "ok") =>
               /\ accounts'[Holder].balance = accounts[Holder].balance + Amount
               /\ OneMore(accounts[Holder].transactions, accounts'[Holder].transactions,
                          "Deposit", Amount)
               /\ \A o \in DOMAIN accounts : o # Holder => accounts'[o] = accounts[o]
          /\ (last'.op \in {"withdraw", "make_withdrawal"} /\ last'.err = "ok") =>
               /\ accounts'[Holder].balance = accounts[Holder].balance - Amount
               /\ OneMore(accounts[Holder].transactions, accounts'[Holder].transactions,
                          "Withdrawal", Amount)
               /\ \A o \in DOMAIN accounts : o # Holder => accounts'[o] = accounts[o]
          /\ (last'.op \in {"deposit", "make_deposit", "withdraw", "make_withdrawal"}
                 /\ last'.err # "ok") => accounts' = accounts
       ]_vars

\* a withdrawal through the service from an account that was opened with
\* money and had received a deposit
C18_Witness ==
    /\ last.op = "make_withdrawal"
    /\ last.err = "ok"
    /\ opening[_data[last.numbers[1]]] > 0
    /\ Sum(accounts[_data[last.numbers[1]]].transactions, "Deposit") > 0
    /\ Sum(accounts[_data[last.numbers[1]]].transactions, "Withdrawal") > 0

\* the stored accounts of a user, as a set of account numbers
OwnedBy(user_id) == {n \in DOMAIN _data : accounts[_data[n]].owner_id = user_id}

IsCustomer(user_id) == user_id \in DOMAIN users /\ users[user_id].user_type = "Customer"

\* C19: an account number leaves the AccountRepository only in a successful
\* delete_customer of the customer who owns the account, and only with a
\* balance of zero; delete_customer of a customer owning an account with a
\* non-zero balance fails and removes neither an account nor the customer;
\* delete_customer of an unknown id or of a Manager returns False and
\* changes nothing; otherwise the customer and all their accounts go.
C19_RemovedOnlyWithOwnerAtZero ==
    [][last' # NoCall =>
          /\ \A n \in DOMAIN _data \ DOMAIN _data' :
                /\ last'.op = "delete_customer" /\ last'.err = "ok"
                /\ IsCustomer(last'.user)
                /\ accounts[_data[n]].owner_id = last'.user
                /\ accounts[_data[n]].balance = 0
          /\ last'.op = "delete_customer" =>
                /\ ~IsCustomer(last'.user) =>
                      last'.err = "False" /\ UNCHANGED <<accounts, _data, file, users>>
                /\ (/\ IsCustomer(last'.user)
                    /\ \E n \in OwnedBy(last'.user) : accounts[_data[n]].balance # 0) =>
                      /\ last'.err = "NonZeroBalance"
                      /\ UNCHANGED <<accounts, _data, file, users>>
                /\ (/\ IsCustomer(last'.user)
                    /\ \A n \in OwnedBy(last'.user) : accounts[_data[n]].balance = 0) =>
                      /\ last'.err = "ok"
                      /\ DOMAIN _data' = DOMAIN _data \ OwnedBy(last'.user)
                      /\ \A n \in DOMAIN _data' : _data'[n] = _data[n]
                      /\ DOMAIN users' = DOMAIN users \ {last'.user}
                      /\ \A id \in DOMAIN users' : users'[id] = users[id]
                      /\ accounts' = accounts
      ]_vars

\* a customer with an emptied account has been deleted, and the account with
\* them
C19_Witness ==
    /\ last.op = "delete_customer"
    /\ last.err = "ok"
    /\ last.saves = 1
    /\ last.user \notin DOMAIN users
    /\ \E o \in DOMAIN accounts :
          /\ accounts[o].owner_id = last.user
          /\ accounts[o].balance = 0
          /\ accounts[o].accountNumber \notin DOMAIN _data

\* delete_customer has been refused because of an account holding money
C19_WitnessRefused ==
    /\ last.op = "delete_customer"
    /\ last.err = "NonZeroBalance"
    /\ last.user \in DOMAIN users
    /\ \E n \in DOMAIN _data :
          accounts[_data[n]].owner_id = last.user /\ accounts[_data[n]].balance > 0

\* C20: no two users of the UserRepository, Customer or Manager, have the
\* same username, whatever calls of register_customer, create_manager,
\* update_user_profile, change_user_password, activate_user, deactivate_user
\* and delete_customer were made; a creation with a username that is present
\* fails and adds no user.
C20_UsernameUnique ==
    /\ [](\A id1, id2 \in DOMAIN users :
             users[id1].username = users[id2].username => id1 = id2)
    /\ [][(/\ last'.op \in {"register_customer", "create_manager"}
           /\ \E id \in DOMAIN users : users[id].username = last'.username) =>
              last'.err = "UsernameExists" /\ users' = users
       ]_vars

\* a manager could not be created under the username of a customer
C20_Witness ==
    /\ last.op = "create_manager"
    /\ last.err = "UsernameExists"
    /\ \E id \in DOMAIN users :
          users[id].username = last.username /\ users[id].user_type = "Customer"

\* two users with different usernames are stored
C20_WitnessTwoUsers ==
    /\ last.op \in {"register_customer", "create_manager"}
    /\ last.err = "ok"
    /\ Cardinality(DOMAIN users) = 2

\* the whole amount, in cents, of the Withdrawal and Transfer Out records of
\* a list that were made on the given day
RECURSIVE SpentOn(_, _)
SpentOn(log, day) ==
    IF log = <<>> THEN 0
    ELSE SpentOn(SubSeq(log, 1, Len(log) - 1), day)
         + (IF /\ date(log[Len(log)].timestamp) = day
               /\ log[Len(log)].type \in {"Withdrawal", "Transfer Out"}
            THEN log[Len(log)].amount ELSE 0)

\* C21: check_daily_limit(account, amount) returns true exactly when the
\* amounts of today's Withdrawal and Transfer Out records of the account
\* plus amount are at most the daily limit of the account's type; deposits,
\* Transfer In records and records of earlier days do not count; an unknown
\* account number fails with account-not-found; nothing changes.
C21_DailyLimitExact ==
    [][last'.op = "check_daily_limit" =>
          /\ UNCHANGED <<accounts, _data, file, users, now>>
          /\ From \notin DOMAIN _data => last'.err = "AccountNotFound"
          /\ From \in DOMAIN _data =>
                LET account == accounts[_data[From]]
                    limit == get_daily_transaction_limit(account.account_type)
                IN /\ last'.err = "ok"
                   /\ last'.ret[1] =
                         (10 * SpentOn(account.transactions, date(now)) + last'.amount
                             <= 1000 * limit)
      ]_vars

\* C22: every make_withdrawal and every transfer_funds that the customer
\* controller issues comes, within the same user action, after a
\* check_daily_limit for the source account and the same amount that
\* returned true.
C22_LimitCheckedBeforeMoney ==
    [][last'.op \in {"_make_withdrawal", "_transfer_funds"} =>
          \A i \in 1..Len(last'.service_calls) :
              last'.service_calls[i].op \in {"make_withdrawal", "transfer_funds"} =>
                 \E j \in 1..(i - 1) :
                     /\ last'.service_calls[j].op = "check_daily_limit"
                     /\ last'.service_calls[j].number = last'.service_calls[i].number
                     /\ last'.service_calls[j].amount = last'.service_calls[i].amount
                     /\ last'.service_calls[j].ret = <<TRUE>>
      ]_vars

\* C23: for every Customer of the UserRepository, the accounts of the
\* customer's account list are the accounts of the AccountRepository whose
\* owner_id is the customer's id, none listed twice, whatever create_account,
\* transfer_account_ownership, delete_customer, save and load calls were made.
C23_AccountListIsOwnerIndex ==
    \A id \in DOMAIN users :
        users[id].user_type = "Customer" =>
            LET list == users[id]._accounts
            IN /\ {accounts[list[i]].accountNumber : i \in 1..Len(list)} = OwnedBy(id)
               /\ \A i, j \in 1..Len(list) : list[i] = list[j] => i = j

\* c cents is the amount of m mills rounded half-up to two fractional digits
HalfUp(m, c) == 10 * c - 5 <= m /\ m < 10 * c + 5

\* the last record of the transaction log of account o after the call
Newest(o) == accounts'[o].transactions[Len(accounts'[o].transactions)]

\* C24: deposit, withdraw and transfer_to of a positive amount on active
\* accounts round the amount half-up to two fractional digits; the funds check
\* of withdraw and transfer_to compares the balance with the rounded amount,
\* the balance moves by the rounded amount, and the records written carry the
\* rounded amount.
C24_RoundedHalfUpOnce ==
    [][(/\ last'.op \in {"deposit", "withdraw", "transfer_to"}
        /\ last'.amount > 0
        /\ \A i \in 1..Len(last'.objs) : accounts[last'.objs[i]].is_active) =>
          \A c \in 0..(last'.amount \div 10 + 1) : HalfUp(last'.amount, c) =>
              /\ last'.op = "deposit" =>
                     /\ last'.err = "ok"
                     /\ accounts'[Self].balance = accounts[Self].balance + c
                     /\ Newest(Self).amount = c /\ last'.ret = <<Newest(Self)>>
              /\ last'.op # "deposit" =>
                     /\ last'.err = "ok" <=> accounts[Self].balance >= c
                     /\ last'.err # "ok" => accounts' = accounts
              /\ (last'.op = "withdraw" /\ last'.err = "ok") =>
                     /\ accounts'[Self].balance = accounts[Self].balance - c
                     /\ Newest(Self).amount = c /\ last'.ret = <<Newest(Self)>>
              /\ (last'.op = "transfer_to" /\ last'.err = "ok") =>
                     /\ accounts'[Self].balance =
                            accounts[Self].balance - c + (IF Self = Target THEN c ELSE 0)
                     /\ Self # Target =>
                            accounts'[Target].balance = accounts[Target].balance + c
                     /\ Newest(Target).amount = c
                     /\ last'.ret[1].amount = c
                     /\ last'.ret[1] \in {accounts'[Self].transactions[i] :
                                             i \in 1..Len(accounts'[Self].transactions)}
      ]_vars

\* 0.005 was deposited as one cent
C24_Witness ==
    /\ last.op = "deposit" /\ last.err = "ok" /\ last.amount = 5
    /\ last.ret[1].amount = 1
    /\ accounts[last.objs[1]].balance >= 1

\* 0.014 was withdrawn as one cent from a balance of one cent
C24_WitnessWithdrawn ==
    /\ last.op = "withdraw" /\ last.err = "ok" /\ last.amount = 14
    /\ accounts[last.objs[1]].balance = 0

\* 0.015 was refused on a balance of one cent: it counts as two cents
C24_WitnessRefused ==
    /\ last.op \in {"withdraw", "transfer_to"} /\ last.err = "InsufficientFunds"
    /\ last.amount = 15
    /\ accounts[last.objs[1]].balance = 1

\* the balance of the stored account with this number after the call, in cents
BalanceAfter(number) == accounts'[_data'[number]].balance

\* C25: a successful make_withdrawal or transfer_funds leaves the source
\* account with at least the minimum balance of its account type, and a
\* successful create_account makes an account with at least the minimum
\* balance of its type.
C25_MinimumBalanceKept ==
    [][(/\ last'.op \in {"make_withdrawal", "transfer_funds", "create_account"}
        /\ last'.err = "ok") =>
          BalanceAfter(From) >=
              100 * get_minimum_balance_requirement(accounts'[_data'[From]].account_type)
      ]_vars

\* C26: a successful create_account adds one account to the repository and
\* leaves every account stored before under its number, the same object with
\* the same balance and transactions, whatever number the generator returned;
\* and no call changes the accountNumber of an Account object.
C26_NumbersAreUniqueKeys ==
    [][/\ (last'.op = "create_account" /\ last'.err = "ok") =>
              /\ Cardinality(DOMAIN _data') = Cardinality(DOMAIN _data) + 1
              /\ \A n \in DOMAIN _data :
                     /\ n \in DOMAIN _data' /\ _data'[n] = _data[n]
                     /\ accounts'[_data[n]] = accounts[_data[n]]
       /\ \A o \in DOMAIN accounts :
              accounts'[o].accountNumber = accounts[o].accountNumber
      ]_vars

\* the observed call wrote the snapshot, and every write of it failed
SaveFailed ==
    /\ last'.op \in {"add", "update", "delete", "make_deposit", "make_withdrawal",
                     "transfer_funds"}
    /\ Len(last'.io) > 0
    /\ \A i \in 1..Len(last'.io) : last'.io[i] # "ok"

\* the call has returned its success result and the repository holds its change
SucceededInMemory ==
    /\ last'.err = "ok"
    /\ last'.op \in {"add", "update"} => _data'[From] = Self
    /\ last'.op = "delete" => From \notin DOMAIN _data'
    /\ last'.op = "make_deposit" =>
           BalanceAfter(From) = accounts[_data[From]].balance + Amount
    /\ last'.op \in {"make_withdrawal", "transfer_funds"} =>
           BalanceAfter(From) = accounts[_data[From]].balance - Amount
    /\ last'.op \in {"make_deposit", "make_withdrawal", "transfer_funds"} =>
           /\ Len(last'.ret) = 1
           /\ Len(accounts'[_data[From]].transactions) =
                  Len(accounts[_data[From]].transactions) + 1

\* C27: when every snapshot write of an add, update, delete, make_deposit,
\* make_withdrawal or transfer_funds fails, the call returns its success result,
\* the repository keeps the change in memory, and the backing file has the
\* content it had before the call.
C27_FailedSaveKeepsFile ==
    [][SaveFailed => (SucceededInMemory /\ file' = file)]_vars

\* the backing file exists and fails to parse
Unparsable(f) == f.state = "partial"

\* the observed call writes the snapshot, and its write succeeds
Writes ==
    /\ last'.op \in {"create_account", "add", "update", "delete", "clear"}
    /\ last'.err = "ok" /\ last'.io = <<"ok">>

\* C28: a repository constructed over a backing file that fails to parse has
\* an empty collection and leaves the file as it is; update and delete calls
\* that fail leave the file too; the first add, successful update, successful
\* delete or clear whose write succeeds replaces the file by the snapshot of
\* the entities in memory, and a repository constructed over the new file
\* holds none of the other entities the old file held.
C28_FailedLoadStartsEmpty ==
    [][Unparsable(file) =>
          /\ last'.op = "__init__" => (_data' = NoContent /\ file' = file)
          /\ (last'.op \in {"update", "delete"} /\ last'.err # "ok") => file' = file
          /\ Writes =>
                 /\ file' = [state |-> "written",
                             content |-> serialized_data(_data', accounts')]
                 /\ \A n \in DOMAIN file.content \ DOMAIN _data' :
                        n \notin DOMAIN RepositoryInit(data_file, file')._data
      ]_vars

\* an account was added to the empty collection and the file that held A1
\* and A2 now holds that account only
C28_Witness ==
    /\ last.op \in {"create_account", "add"} /\ last.io = <<"ok">>
    /\ last.numbers = <<"A1">>
    /\ file.state = "written" /\ DOMAIN file.content = {"A1"}
    /\ calls = 1

\* the repository was constructed once more over the file that fails to parse
C28_WitnessConstructed ==
    /\ last.op = "__init__" /\ Unparsable(file) /\ DOMAIN file.content = {"A1", "A2"}
    /\ _data = NoContent

\* the snapshot f shows both sides of the transfer the observed call made
ShowsDebitAndCredit(f) ==
    /\ f.content[From].balance = accounts[_data[From]].balance - Amount
    /\ f.content[To].balance = accounts[_data[To]].balance + Amount
    /\ OneMore(to_dict(accounts[_data[From]]).transactions,
               f.content[From].transactions, "Transfer Out", Amount)
    /\ OneMore(to_dict(accounts[_data[To]]).transactions,
               f.content[To].transactions, "Transfer In", Amount)

\* the sum of the balances the snapshot f shows for the two accounts
PersistedSum(f) == f.content[From].balance + f.content[To].balance

\* the file before the call is a snapshot that shows the two accounts
ShownBefore ==
    file.state = "written" /\ From \in DOMAIN file.content /\ To \in DOMAIN file.content

Accepted(token) ==
    /\ token \in DOMAIN _active_sessions
    /\ now - _active_sessions[token].last_activity <= _session_timeout
    /\ _active_sessions[token].user_id \in DOMAIN users
    /\ users[_active_sessions[token].user_id].is_active

\* C30: validate_session returns a user exactly when the token has a session
\* (it was issued by create_session and not removed), the time since the last
\* activity of the session is at most the timeout, and the user of the session
\* is stored and active; it then returns that user and sets the last activity
\* of the session to the current time.  Otherwise it removes the session of
\* the token, if there is one, and changes no other session.  A token whose
\* session was removed gets no session again, and while the clock moves no
\* session is removed.
C30_LazySlidingExpiry ==
    [][/\ last'.op = "validate_session" =>
              /\ last'.ret # <<>> <=> Accepted(last'.token)
              /\ Accepted(last'.token) =>
                     /\ last'.ret = <<_active_sessions[last'.token].user_id>>
                     /\ _active_sessions' =
                            [_active_sessions EXCEPT ![last'.token].last_activity = now]
              /\ ~Accepted(last'.token) =>
                     /\ DOMAIN _active_sessions' = DOMAIN _active_sessions \ {last'.token}
                     /\ \A t \in DOMAIN _active_sessions' :
                            _active_sessions'[t] = _active_sessions[t]
       /\ DOMAIN _active_sessions' \subseteq issued'
       /\ \A t \in issued \ DOMAIN _active_sessions : t \notin DOMAIN _active_sessions'
       /\ now' # now => _active_sessions' = _active_sessions
      ]_vars

\* a session was validated some time after its creation: its last activity
\* is now
C30_Witness ==
    /\ last.op = "validate_session" /\ last.ret # <<>>
    /\ _active_sessions[last.token].last_activity = now
    /\ _active_sessions[last.token].created_at < now

\* a session was validated after more than the timeout: it is gone
C30_WitnessExpired ==
    /\ last.op = "validate_session" /\ last.ret = <<>>
    /\ last.token \in issued /\ last.token \notin DOMAIN _active_sessions
    /\ now > _session_timeout /\ calls = 3
    /\ \A id \in UserIds : id \in DOMAIN users /\ users[id].is_active

\* the session of a deactivated user was validated: it is gone
C30_WitnessInactive ==
    /\ last.op = "validate_session" /\ last.ret = <<>>
    /\ last.token \in issued /\ last.token \notin DOMAIN _active_sessions
    /\ now = 0 /\ calls = 3
    /\ \E id \in DOMAIN users : ~users[id].is_active

\* a session at the very end of the timeout was validated
C30_WitnessAtTimeout ==
    /\ last.op = "validate_session" /\ last.ret # <<>>
    /\ now - _active_sessions[last.token].created_at = _session_timeout

====
